---- MODULE Spec2Model ----
(***************************************************************************)
(* A model of the platypus fleet energy-aware control loop.                *)
(*                                                                         *)
(*   - the Migration Planner (internal/migration/planner.go): the          *)
(*     active-plans registry, the planning pass and the execution pass     *)
(*     with its semaphore, wait group and mutex;                           *)
(*   - the Metric Store (package metrics, Collector): the ingestion        *)
(*     buffer, the single buffer consumer, the eviction sweep and the      *)
(*     readers, under the store's reader/writer lock;                      *)
(*   - the memory behind a server's stored samples: Go slice headers over  *)
(*     backing arrays, as append and the sweep use them;                   *)
(*   - the Autoscaler (internal/scaling/autoscaler.go): evaluate, the      *)
(*     cooldowns, scaleUp and scaleDown with their relocation loops;       *)
(*   - the Scoring Engine (internal/metrics/analyzer.go): the statistics,  *)
(*     trend, anomalies and composite score of a server's samples.         *)
(*                                                                         *)
(* Each component has a specification of its own: SpecPlanner (and         *)
(* SpecPlanning, the planning pass alone over every configuration, and     *)
(* SpecShutdown, the planner under cancellation of its context),           *)
(* SpecStore, SpecSlice, SpecScaler (the autoscaler over time),            *)
(* SpecScalePass (its scale passes over every fleet) and SpecAnalyzer      *)
(* (the analyzer over every short series of samples); SpecTags is the tag  *)
(* manager's profile of one service, FairSpecIngest the store under the    *)
(* scheduler's fairness, and SpecFleet the planner and the autoscaler      *)
(* running side by side.  The components                                   *)
(* share no state in the code except through GetMetrics, which the         *)
(* planner and the autoscaler see as the eco-score of a server.            *)
(***************************************************************************)
EXTENDS Integers, Sequences, FiniteSets, TLC

VARIABLES
    \* ---- Planner (planner.go:30-37) and the locals of its goroutines
    activePlans,           \* Planner.activePlans: the registry, a set of plans keyed by ContainerID
    p_mu,                  \* Planner.mu: "free", "main" (executeMigrations) or the container of a worker
    ConcurrentMigrations,  \* PlannerConfig.ConcurrentMigrations, fixed at construction
    ecoScore,              \* what getServerEcoScore answers for each server
    p_pc,                  \* position of the Start loop: "tick", "exec", "loop"
    plans,                 \* executeMigrations' sorted snapshot (local `plans`)
    idx,                   \* index of the next plan of the for loop (1-based)
    sem,                   \* number of slots taken in the channel `sem`
    wg,                    \* the WaitGroup counter
    w_pc,                  \* per container: position of its migration goroutine
    migrateErr,            \* per container: what MigrateContainer returned in this pass
    planErr,               \* whether the last planMigrations returned an error
    retry,                 \* containers whose relocation failed in the last completed pass
    p_loc,                 \* what getServerContainers reported in the planMigrations that just returned
    \* ---- Collector (part_004:20-31) and the locals of its goroutines
    buffer,                \* Collector.buffer: the channel's queue of MetricBatch
    metrics,               \* Collector.metrics: server -> ServerMetrics, for the servers that have an entry
    c_mu,                  \* Collector.mu: [writer |-> "none"|"consumer"|"cleanup", readers |-> set of readers]
    RetentionPeriod,       \* CollectorConfig.RetentionPeriod, fixed at construction
    now,                   \* the clock (time.Now), in whole time units
    nextSeq,               \* arrival number of the next accepted sample
    lastErr,               \* what the last CollectMetrics call returned
    consumer,              \* processBuffer: [pc, batch]
    cleanup,               \* cleanupOldMetrics: [pc, cutoff, before]
    reader,                \* per reader: [pc, server] of its GetMetrics call
    got,                   \* what the last GetMetrics call returned: [server, data, err]
    incorporated,          \* servers for which processBatch has incorporated a batch
    \* ---- what the planner is constructed with and the fleet it sees
    MinPowerSaving,        \* PlannerConfig.MinPowerSaving (watts)
    MaxDowntime,           \* PlannerConfig.MaxDowntime (seconds)
    Region,                \* models.Server.Region of each server
    PowerUsage,            \* models.Container.PowerUsage of each container (watts)
    ctx,                   \* the context the Start functions are given: "live" or "done" (cancelled)
    \* ---- the memory behind one server's ServerMetrics.Data (a Go slice)
    h_heap,                \* backing arrays: array id -> its cells (0 = a cell never written)
    h_data,                \* the slice header stored in ServerMetrics.Data: [arr, len, cap]
    h_ret,                 \* the slice header the last GetMetrics returned
    h_seen,                \* the elements of h_ret when GetMetrics returned it
    h_ops,                 \* appends and sweeps done so far
    \* ---- Autoscaler (autoscaler.go:22-30) and the locals of evaluate
    a_mu,                  \* Autoscaler.mu: "free", or "scale" while scaleUp/scaleDown holds it
    lastScaleUp,           \* Autoscaler.lastScaleUp: a time, or ZeroTime
    lastScaleDown,         \* Autoscaler.lastScaleDown: a time, or ZeroTime
    ScaleUpCooldown,       \* AutoscalerConfig.ScaleUpCooldown, fixed at construction
    ScaleDownCooldown,     \* AutoscalerConfig.ScaleDownCooldown, fixed at construction
    a_now,                 \* the clock the autoscaler reads (time.Now, time.Since)
    a_pc,                  \* position of Start/evaluate: "idle", "eval", "check", "up", "down"
    a_servers,             \* evaluate's local `servers`
    a_i,                   \* index of the server of evaluate's loop (1-based)
    a_metric,              \* evaluate's local `lastMetric` of that server
    a_decision,            \* what the last evaluation of a server led to
    a_src,                 \* scaleUp/scaleDown's parameter `server`
    a_target,              \* scaleUp/scaleDown's local `targetServer` (its ID)
    a_containers,          \* scaleUp/scaleDown's local `containers`
    a_k,                   \* index of the container of the relocation loop (1-based)
    a_attempts,            \* the MigrateContainer calls of the last scale pass: [c, res]
    a_passStart,           \* when the current evaluation pass started
    a_ups,                 \* scale-ups completed in the current evaluation pass
    a_env,                 \* what the autoscaler's surroundings may do: [horizon, scores, listing, orders, lists]
    \* ---- Analyzer (analyzer.go:18-21) and a caller of it
    an_config,             \* AnalyzerConfig: [MinDataPoints, AnomalyThreshold]
    an_data,               \* what GetMetrics answers for the server: [found, data]
    an_out,                \* what the last call returned: [op, err, analysis, score]
    \* ---- TagManager (ecotags/manager.go:36-43)
    tm_config,             \* TagManagerConfig: [MinDataPoints]
    profiles               \* TagManager.profiles: service name -> ServiceEcoProfile

pvars == <<activePlans, p_mu, ConcurrentMigrations, ecoScore, p_pc, plans, idx,
           sem, wg, w_pc, migrateErr, planErr, retry, p_loc>>
svars == <<buffer, metrics, c_mu, RetentionPeriod, now, nextSeq, lastErr, consumer, cleanup,
           reader, got, incorporated>>
fvars == <<MinPowerSaving, MaxDowntime, Region, PowerUsage, ctx>>
\* the variables of the components other than the planner and the store
hvars == <<h_heap, h_data, h_ret, h_seen, h_ops>>
avars == <<a_mu, lastScaleUp, lastScaleDown, ScaleUpCooldown, ScaleDownCooldown, a_now,
           a_pc, a_servers, a_i, a_metric, a_decision, a_src, a_target,
           a_containers, a_k, a_attempts, a_passStart, a_ups, a_env>>
nvars == <<an_config, an_data, an_out, tm_config, profiles>>
evars == <<fvars, hvars, avars, nvars>>
\* the planner's variables but the eco-scores, which the autoscaler reads too
plvars == <<activePlans, p_mu, ConcurrentMigrations, p_pc, plans, idx, sem, wg,
            w_pc, migrateErr, planErr, retry, p_loc>>
vars == <<pvars, svars, evars>>

(***************************************************************************)
(* Bounds of the model.                                                    *)
(***************************************************************************)
NumContainers == 2      \* containers the orchestration collaborator may report
MaxCap == 2             \* ConcurrentMigrations ranges over 1..MaxCap
BufferSize == 2         \* CollectorConfig.BufferSize: capacity of the ingestion channel
MaxRetention == 1       \* RetentionPeriod ranges over 0..MaxRetention
MaxTime == 1            \* the clock runs from 0 to MaxTime
MaxSamples == 2         \* samples accepted per behaviour
MaxSliceOps == 4        \* appends and sweeps on the server's slice per behaviour
MaxCooldown == 1        \* the cooldowns range over 0..MaxCooldown
MaxScalerTime == 2      \* the autoscaler's clock runs from 0 to MaxScalerTime
MaxPassTime == 1        \* the same, where the scale passes are followed in detail
MaxSeries == 3          \* samples a server has retained when the analyzer is called

Containers == 1..NumContainers
Servers == {"A", "B", "C"}
NoServer == "none"
\* no container reported on any server
NoLoc == [c \in Containers |-> NoServer]

\* models.Server.Region of the fleet's servers
FleetRegion == [s \in Servers |-> IF s = "C" THEN "us" ELSE "eu"]
\* models.Container.PowerUsage (watts); a saving of 110 W has priority 11
\* before the downtime penalty and the clamp, so the plans of the fleet
\* differ in priority
FleetPowerUsage == [c \in Containers |-> 110 * c]
\* eco-scores the scoring engine may report for a server (0 = no metrics);
\* 70 is the cutoff of planMigrations
ScoreValues == {0, 40, 70, 90}

\* PlannerConfig as set in main.go: 100 W, 2 minutes
MainConfig == [MinPowerSaving |-> 100, MaxDowntime |-> 120]

\* other configurations NewPlanner accepts: 50 W and 90 s; 100 W and 60 s,
\* which a relocation to another region exceeds
ExampleConfig == [MinPowerSaving |-> 50, MaxDowntime |-> 90]
TightConfig == [MinPowerSaving |-> 100, MaxDowntime |-> 60]
PlannerConfigs == {MainConfig, ExampleConfig, TightConfig}

\* a fleet in one region, with containers of 200 W, scoring 90, 40 and 95
OneRegion == [s \in Servers |-> "eu"]
ExamplePowerUsage == [c \in Containers |-> 200]
ExampleScores == [s \in Servers |-> IF s = "A" THEN 90 ELSE IF s = "B" THEN 40 ELSE 95]
\* containers of 250 W
HeavyPowerUsage == [c \in Containers |-> 250]

\* the planner's configuration and fleet as main.go sets them up
FleetOfMain ==
    /\ MinPowerSaving = MainConfig.MinPowerSaving
    /\ MaxDowntime = MainConfig.MaxDowntime
    /\ Region = FleetRegion
    /\ PowerUsage = FleetPowerUsage
    /\ ctx = "live"

(***************************************************************************)
(* float64 values: a rational [n, d] with d > 0, or one of the IEEE        *)
(* specials a division by zero produces.                                   *)
(***************************************************************************)
FNum(n, d) == [kind |-> "num", n |-> n, d |-> d]
FNaN == [kind |-> "NaN", n |-> 0, d |-> 1]
FNegInf == [kind |-> "-Inf", n |-> 0, d |-> 1]

\* x < y on float64: false whenever an operand is NaN
FLess(x, y) ==
    IF x.kind = "NaN" \/ y.kind = "NaN" THEN FALSE
    ELSE IF x.kind = "-Inf" THEN y.kind # "-Inf"
    ELSE IF y.kind = "-Inf" THEN FALSE
    ELSE x.n * y.d < y.n * x.d

\* int(x) of a finite float64: truncation toward zero
FTrunc(n, d) == IF n >= 0 THEN n \div d ELSE -((-n) \div d)

(***************************************************************************)
(* Planner: pure functions                                                 *)
(***************************************************************************)
getServerEcoScore(s) == ecoScore[s]

\* sourcePower - sourcePower * (score(target) / score(source))
estimatePowerSaving(c, src, tgt) ==
    LET P == PowerUsage[c]
        s == getServerEcoScore(src)
        t == getServerEcoScore(tgt)
    IN  IF s = 0
        THEN IF t = 0 \/ P = 0 THEN FNaN ELSE FNegInf
        ELSE FNum(P * (s - t), s)

estimateDowntime(src, tgt) ==
    IF Region[src] # Region[tgt] THEN 30 + 60 ELSE 30

calculatePriority(powerSaving, downtime) ==
    LET raw == FTrunc(powerSaving.n * 10, powerSaving.d * MinPowerSaving)
        pen == IF 2 * downtime > MaxDowntime THEN raw - 2 ELSE raw
    IN  IF pen < 1 THEN 1 ELSE IF pen > 10 THEN 10 ELSE pen

MigrationPlan(c, src, tgt, ps, dt) ==
    [ContainerID |-> c, SourceServerID |-> src, TargetServerID |-> tgt,
     Priority |-> calculatePriority(ps, dt), PowerSaving |-> ps,
     DowntimeEstimate |-> dt]

\* a findBestMigrationPlan that keeps the first server passing both tests
RECURSIVE findFirstFrom(_, _, _)
findFirstFrom(c, src, targets) ==
    IF targets = <<>> THEN {}
    ELSE LET tgt == Head(targets)
             ps == estimatePowerSaving(c, src, tgt)
             dt == estimateDowntime(src, tgt)
         IN  IF tgt = src \/ FLess(ps, FNum(MinPowerSaving, 1)) \/ dt > MaxDowntime
                \/ ~FLess(FNum(0, 1), ps)
             THEN findFirstFrom(c, src, Tail(targets))
             ELSE {MigrationPlan(c, src, tgt, ps, dt)}

findBestMigrationPlan_FirstQualifying(c, src, servers) ==
    findFirstFrom(c, src, servers)

\* the loop of findBestMigrationPlan over targetServers; best is {} (nil) or {plan}
RECURSIVE findBestFrom(_, _, _, _, _)
findBestFrom(c, src, targets, best, maxPowerSaving) ==
    IF targets = <<>> THEN best
    ELSE LET tgt == Head(targets)
             ps == estimatePowerSaving(c, src, tgt)
             dt == estimateDowntime(src, tgt)
         IN  IF tgt = src
                 THEN findBestFrom(c, src, Tail(targets), best, maxPowerSaving)
             ELSE IF FLess(ps, FNum(MinPowerSaving, 1))
                 THEN findBestFrom(c, src, Tail(targets), best, maxPowerSaving)
             ELSE IF dt > MaxDowntime
                 THEN findBestFrom(c, src, Tail(targets), best, maxPowerSaving)
             ELSE IF FLess(maxPowerSaving, ps)
                 THEN findBestFrom(c, src, Tail(targets),
                                   {MigrationPlan(c, src, tgt, ps, dt)}, ps)
             ELSE findBestFrom(c, src, Tail(targets), best, maxPowerSaving)

findBestMigrationPlan(c, src, servers) ==
    findBestFrom(c, src, servers, {}, FNum(0, 1))

\* the registry as a Go map keyed by ContainerID
HasPlan(reg, c) == \E p \in reg : p.ContainerID = c
PlanOf(reg, c) == CHOOSE p \in reg : p.ContainerID = c
MapPut(reg, plan) == {p \in reg : p.ContainerID # plan.ContainerID} \cup {plan}
MapDelete(reg, c) == {p \in reg : p.ContainerID # c}

\* planContainer without the `if _, exists := p.activePlans[container.ID]` test
planContainer_NoExistsTest(reg, c, src, servers) ==
    LET bestPlan == findBestMigrationPlan(c, src, servers)
    IN  IF bestPlan # {}
        THEN MapPut(reg, CHOOSE p \in bestPlan : TRUE)
        ELSE reg

\* the body of planMigrations' loop over a server's containers, for one container
planContainer(reg, c, src, servers) ==
    IF HasPlan(reg, c) THEN reg
    ELSE LET bestPlan == findBestMigrationPlan(c, src, servers)
         IN  IF bestPlan # {}
             THEN MapPut(reg, CHOOSE p \in bestPlan : TRUE)
             ELSE reg

RECURSIVE planContainers(_, _, _, _)
planContainers(reg, cs, src, servers) ==
    IF cs = {} THEN reg
    ELSE LET c == CHOOSE x \in cs : \A y \in cs : x <= y
         IN  planContainers(planContainer(reg, c, src, servers),
                            cs \ {c}, src, servers)

\* a planMigrations whose cutoff leaves out a server scoring exactly 70
RECURSIVE planServers_Below70(_, _, _, _)
planServers_Below70(reg, rest, servers, loc) ==
    IF rest = <<>> THEN reg
    ELSE LET src == Head(rest)
         IN  IF getServerEcoScore(src) >= 70
             THEN planServers_Below70(reg, Tail(rest), servers, loc)
             ELSE planServers_Below70(
                      planContainers(reg, {c \in Containers : loc[c] = src},
                                     src, servers),
                      Tail(rest), servers, loc)

\* the loop of planMigrations over the sorted servers; loc is what
\* getServerContainers reports (the containers of each server)
RECURSIVE planServers(_, _, _, _)
planServers(reg, rest, servers, loc) ==
    IF rest = <<>> THEN reg
    ELSE LET src == Head(rest)
         IN  IF getServerEcoScore(src) > 70
             THEN planServers(reg, Tail(rest), servers, loc)
             ELSE planServers(
                      planContainers(reg, {c \in Containers : loc[c] = src},
                                     src, servers),
                      Tail(rest), servers, loc)

\* the sequences over a finite set S that list every element once
Perms(S) ==
    {f \in [1..Cardinality(S) -> S] : \A i, j \in DOMAIN f : i # j => f[i] # f[j]}

\* what sort.Slice may leave: any order that is non-increasing in eco-score
SortedServers ==
    {f \in Perms(Servers) :
        \A i, j \in DOMAIN f :
            i < j => getServerEcoScore(f[i]) >= getServerEcoScore(f[j])}

\* what sort.Slice may leave of the registry: non-increasing in Priority
SortedPlans(reg) ==
    {f \in Perms(reg) :
        \A i, j \in DOMAIN f : i < j => f[i].Priority >= f[j].Priority}

(***************************************************************************)
(* Metric Store: values                                                    *)
(*                                                                         *)
(* A sample is a models.MetricData reduced to its Timestamp and its        *)
(* arrival number seq (the order in which CollectMetrics accepted it),     *)
(* which stands for the payload.                                           *)
(***************************************************************************)
StoreServers == {"A", "B"}
Readers == {"r1", "r2"}

MetricData(ts, n) == [Timestamp |-> ts, seq |-> n]
MetricBatch(sid, data, t) == [ServerID |-> sid, Metrics |-> <<data>>, Timestamp |-> t]
NoBatch == [ServerID |-> NoServer, Metrics |-> <<>>, Timestamp |-> 0]
NoMetrics == [s \in {} |-> 0]

\* the zero time.Time of a field never assigned: before every clock value
ZeroTime == -1
\* the ID of the zero models.Server
ZeroServerID == ""
NoMetric == [cpu |-> 0, power |-> 0, none |-> TRUE]

\* the autoscaler as NewAutoscaler leaves it, never started
ScalerIdle ==
    /\ a_mu = "free"
    /\ lastScaleUp = ZeroTime
    /\ lastScaleDown = ZeroTime
    /\ ScaleUpCooldown = 0
    /\ ScaleDownCooldown = 0
    /\ a_now = 0
    /\ a_pc = "idle"
    /\ a_servers = <<>>
    /\ a_i = 1
    /\ a_metric = NoMetric
    /\ a_decision = "none"
    /\ a_src = ZeroServerID
    /\ a_target = ZeroServerID
    /\ a_containers = <<>>
    /\ a_k = 1
    /\ a_attempts = <<>>
    /\ a_passStart = 0
    /\ a_ups = 0
    /\ a_env = [horizon |-> 0, scores |-> {}, listing |-> {}, orders |-> {}, lists |-> {}]

\* the planner as NewPlanner leaves it, never started
PlannerIdle ==
    /\ activePlans = {}
    /\ p_mu = "free"
    /\ ConcurrentMigrations = 1
    /\ p_pc = "tick"
    /\ plans = <<>>
    /\ idx = 1
    /\ sem = 0
    /\ wg = 0
    /\ w_pc = [c \in Containers |-> "none"]
    /\ migrateErr = [c \in Containers |-> "none"]
    /\ planErr = FALSE
    /\ retry = {}
    /\ p_loc = NoLoc

\* the store as NewCollector leaves it, never started
StoreIdle ==
    /\ buffer = <<>>
    /\ metrics = NoMetrics
    /\ c_mu = [writer |-> "none", readers |-> {}]
    /\ RetentionPeriod = 0
    /\ now = 0
    /\ nextSeq = 1
    /\ lastErr = "nil"
    /\ consumer = [pc |-> "recv", batch |-> NoBatch]
    /\ cleanup = [pc |-> "idle", cutoff |-> 0, before |-> NoMetrics]
    /\ reader = [r \in Readers |-> [pc |-> "idle", server |-> NoServer]]
    /\ got = [server |-> NoServer, data |-> <<>>, err |-> "nil"]
    /\ incorporated = {}

\* GetMetrics' answer for a server that has no entry: nil and an error
NotFound == [found |-> FALSE, data |-> <<>>]
\* a call that has not been made
NoCall == [op |-> "none", err |-> "nil", analysis |-> <<>>, computed |-> {},
           score |-> FNum(0, 1)]

\* the analyzer as NewAnalyzer leaves it, never called
\* the tag manager as NewTagManager leaves it, with main's configuration
NoProfiles == [name \in {} |-> 0]
TagManagerIdle ==
    /\ tm_config = [MinDataPoints |-> 10]
    /\ profiles = NoProfiles

AnalyzerIdle ==
    /\ an_config = [MinDataPoints |-> 10, AnomalyThreshold |-> FNum(5, 2)]
    /\ an_data = NotFound
    /\ an_out = NoCall

(***************************************************************************)
(* Go slices: a header [arr, len, cap] over a backing array.  Array 0 is   *)
(* the empty array every zero-capacity slice points to.                    *)
(***************************************************************************)
\* make([]models.MetricData, 0)
EmptySlice == [arr |-> 0, len |-> 0, cap |-> 0]
EmptyHeap == [a \in {0} |-> <<>>]

\* the elements a holder of the header sl reads
View(heap, sl) == SubSeq(heap[sl.arr], 1, sl.len)

\* an array of cap cells that starts with elems
NewArray(elems, cap) == [i \in 1..cap |-> IF i <= Len(elems) THEN elems[i] ELSE 0]

FreshArr(heap) == CHOOSE a \in 1..(Cardinality(DOMAIN heap) + 1) : a \notin DOMAIN heap

\* the capacities the runtime may give a slice grown to hold n elements
GrowCaps(n) == n..(2 * n)

\* the arrays still referenced by one of the headers in roots
Live(heap, roots) == [a \in {0} \cup {sl.arr : sl \in roots} |-> heap[a]]

\* append(sl, x): in place when there is room after len, else into a new
\* array; the outcomes are [heap, sl] pairs
appendSlice(heap, sl, x) ==
    IF sl.len < sl.cap
    THEN {[heap |-> [heap EXCEPT ![sl.arr][sl.len + 1] = x],
           sl |-> [sl EXCEPT !.len = sl.len + 1]]}
    ELSE {[heap |-> [a \in DOMAIN heap \cup {FreshArr(heap)} |->
                        IF a \in DOMAIN heap THEN heap[a]
                        ELSE NewArray(Append(View(heap, sl), x), c)],
           sl |-> [arr |-> FreshArr(heap), len |-> sl.len + 1, cap |-> c]]
          : c \in GrowCaps(sl.len + 1)}

\* the elements of cells at the indices of keep, from index i on, in order
RECURSIVE pick(_, _, _)
pick(cells, keep, i) ==
    IF i > Len(cells) THEN <<>>
    ELSE (IF i \in keep THEN <<cells[i]>> ELSE <<>>) \o pick(cells, keep, i + 1)

\* a sweep that filters into the array it reads (filtered := data[:0])
sweepSlice_InPlace(heap, sl, keep) ==
    LET kept == pick(View(heap, sl), keep, 1)
    IN  {[heap |-> [heap EXCEPT ![sl.arr] =
                       [i \in 1..sl.cap |-> IF i <= Len(kept) THEN kept[i] ELSE @[i]]],
          sl |-> [sl EXCEPT !.len = Len(kept)]]}

\* cleanupOldMetrics on one server: filtered := make(..., 0), one append per
\* sample kept, Data = filtered; keep is the set of indices that pass the test
sweepSlice(heap, sl, keep) ==
    LET kept == pick(View(heap, sl), keep, 1)
    IN  IF kept = <<>> THEN {[heap |-> heap, sl |-> EmptySlice]}
        ELSE {[heap |-> [a \in DOMAIN heap \cup {FreshArr(heap)} |->
                            IF a \in DOMAIN heap THEN heap[a] ELSE NewArray(kept, c)],
               sl |-> [arr |-> FreshArr(heap), len |-> Len(kept), cap |-> c]]
              : c \in GrowCaps(Len(kept))}

\* the server's entry as processBatch creates it, no GetMetrics yet
SliceIdle ==
    /\ h_heap = EmptyHeap
    /\ h_data = EmptySlice
    /\ h_ret = EmptySlice
    /\ h_seen = <<>>
    /\ h_ops = 0

SliceInit ==
    /\ SliceIdle
    /\ AnalyzerIdle
    /\ TagManagerIdle
    /\ PlannerIdle
    /\ ecoScore = [s \in Servers |-> 0]
    /\ StoreIdle
    /\ FleetOfMain
    /\ ScalerIdle

\* processBatch: Data = append(Data, batch.Metrics...), one sample per batch
SliceAppend ==
    /\ h_ops < MaxSliceOps
    /\ \E r \in appendSlice(h_heap, h_data, h_ops + 1) :
          /\ h_data' = r.sl
          /\ h_heap' = Live(r.heap, {r.sl, h_ret})
    /\ h_ops' = h_ops + 1
    /\ UNCHANGED <<h_ret, h_seen>>
    /\ UNCHANGED <<pvars, svars, fvars, avars, nvars>>

\* cleanupOldMetrics: Data = the samples that pass the retention test
SliceSweep ==
    /\ h_ops < MaxSliceOps
    /\ \E keep \in SUBSET (1..h_data.len) :
       \E r \in sweepSlice(h_heap, h_data, keep) :
          /\ h_data' = r.sl
          /\ h_heap' = Live(r.heap, {r.sl, h_ret})
    /\ h_ops' = h_ops + 1
    /\ UNCHANGED <<h_ret, h_seen>>
    /\ UNCHANGED <<pvars, svars, fvars, avars, nvars>>

\* GetMetrics: return metrics.Data, nil
SliceGet ==
    /\ h_ret' = h_data
    /\ h_seen' = View(h_heap, h_data)
    /\ h_heap' = Live(h_heap, {h_data})
    /\ UNCHANGED <<h_data, h_ops>>
    /\ UNCHANGED <<pvars, svars, fvars, avars, nvars>>

SliceNext ==
    \/ SliceAppend
    \/ SliceSweep
    \/ SliceGet

SpecSlice == SliceInit /\ [][SliceNext]_vars

(***************************************************************************)
(* Autoscaler (internal/scaling/autoscaler.go)                             *)
(***************************************************************************)
\* AutoscalerConfig as set in main.go
CPUThresholdHigh == 80
CPUThresholdLow == 20
PowerThresholdHigh == 1000

\* the last sample GetMetrics may give for a server: its CPUUsage and PowerUsage
CpuValues == {10, 20, 80, 85}
PowerValues == {1000, 1200}
LastMetrics == {[cpu |-> c, power |-> w, none |-> FALSE] : c \in CpuValues, w \in PowerValues}

\* what evaluate may find for a server: an error or no sample (NoMetric), or
\* a last sample
MetricViews == LastMetrics \cup {NoMetric}

\* no score read yet
NoScores == [s \in Servers |-> 0]

\* what getServerContainers may report: the containers of the server, in some order
ContainerLists ==
    {f \in UNION {[1..n -> Containers] : n \in 0..NumContainers} :
        \A i, j \in DOMAIN f : i # j => f[i] # f[j]}

\* time.Since(last) < cooldown; the zero time is further back than any cooldown
SinceLess(last, cooldown) == last # ZeroTime /\ a_now - last < cooldown

\* a shouldScaleUp that does not look at the cooldown
shouldScaleUp_NoCooldown(metric) ==
    metric.cpu > CPUThresholdHigh \/ metric.power > PowerThresholdHigh

shouldScaleUp(metric) ==
    IF SinceLess(lastScaleUp, ScaleUpCooldown) THEN FALSE
    ELSE metric.cpu > CPUThresholdHigh \/ metric.power > PowerThresholdHigh

shouldScaleDown(metric) ==
    IF SinceLess(lastScaleDown, ScaleDownCooldown) THEN FALSE
    ELSE metric.cpu < CPUThresholdLow

\* analyzer.CalculateEcoScore([]models.MetricData{}): the score of no samples
EmptySamplesScore == 0

\* the loop of findEnergyEfficientServer over the servers GetInstances lists
\* (scores[s] is CalculateEcoScore of the server's samples; a server whose
\* GetMetrics fails is skipped, as one of score 0 is)
RECURSIVE findEfficientFrom(_, _, _, _)
findEfficientFrom(scores, rest, bestServer, bestScore) ==
    IF rest = <<>> THEN bestServer
    ELSE IF scores[Head(rest)] > bestScore
         THEN findEfficientFrom(scores, Tail(rest), Head(rest), scores[Head(rest)])
         ELSE findEfficientFrom(scores, Tail(rest), bestServer, bestScore)

findEnergyEfficientServer(scores, servers) ==
    findEfficientFrom(scores, servers, ZeroServerID, 0)

\* the autoscaler as NewAutoscaler leaves it and main starts it
ScalerStart ==
    /\ a_mu = "free"
    /\ lastScaleUp = ZeroTime
    /\ lastScaleDown = ZeroTime
    /\ a_now = 0
    /\ a_pc = "idle"
    /\ a_servers = <<>>
    /\ a_i = 1
    /\ a_metric = NoMetric
    /\ a_decision = "none"
    /\ a_src = ZeroServerID
    /\ a_target = ZeroServerID
    /\ a_containers = <<>>
    /\ a_k = 1
    /\ a_attempts = <<>>
    /\ a_passStart = 0
    /\ a_ups = 0
    /\ ecoScore = NoScores
    /\ PlannerIdle
    /\ StoreIdle
    /\ FleetOfMain
    /\ SliceIdle
    /\ AnalyzerIdle
    /\ TagManagerIdle

\* the autoscaler over time: every cooldown, every last sample, and a fleet
\* whose scores, listing order and containers are one case each
ScalerInit ==
    /\ ScalerStart
    /\ ScaleUpCooldown \in 0..MaxCooldown
    /\ ScaleDownCooldown \in 0..MaxCooldown
    /\ a_env = [horizon |-> MaxScalerTime,
                scores |-> {[s \in Servers |-> IF s = "A" THEN 90 ELSE IF s = "B" THEN 40 ELSE 0]},
                listing |-> {<<"A", "B", "C">>},
                orders |-> {<<"A", "B", "C">>},
                lists |-> {<<>>, <<1>>}]

\* the scale passes in detail: every score, every order in which
\* findEnergyEfficientServer may be given the fleet and every container
\* list, over a short time, with no cooldown
ScalePassInit ==
    /\ ScalerStart
    /\ ScaleUpCooldown = 0
    /\ ScaleDownCooldown = 0
    /\ a_env = [horizon |-> MaxPassTime,
                scores |-> [Servers -> ScoreValues],
                listing |-> {<<"A", "B", "C">>},
                orders |-> Perms(Servers),
                lists |-> ContainerLists]

\* the locals of scaleUp/scaleDown before the call
NoScalePass ==
    /\ a_src' = ZeroServerID
    /\ a_target' = ZeroServerID
    /\ a_containers' = <<>>
    /\ a_k' = 1
    /\ a_attempts' = <<>>
    /\ ecoScore' = NoScores

\* time passes
ScalerTick ==
    /\ a_now < a_env.horizon
    /\ a_now' = a_now + 1
    /\ UNCHANGED <<lastScaleUp, lastScaleDown, ScaleUpCooldown, ScaleDownCooldown,
                   a_pc, a_servers, a_i, a_metric, a_decision, a_src, a_target,
                   a_containers, a_k, a_attempts, a_passStart, a_ups, ecoScore>>
    /\ UNCHANGED <<plvars, svars, fvars, hvars, nvars, a_env, a_mu>>

\* Start's ticker case: evaluate begins; GetInstances fails or lists the fleet
Evaluate ==
    /\ a_pc = "idle"
    /\ \/ UNCHANGED <<a_pc, a_servers, a_i, a_passStart, a_ups>>
       \/ /\ \E servers \in a_env.listing : a_servers' = servers
          /\ a_i' = 1
          /\ a_pc' = "eval"
          /\ a_passStart' = a_now
          /\ a_ups' = 0
    /\ a_metric' = NoMetric
    /\ a_decision' = "none"
    /\ NoScalePass
    /\ UNCHANGED <<lastScaleUp, lastScaleDown, ScaleUpCooldown, ScaleDownCooldown,
                   a_now>>
    /\ UNCHANGED <<plvars, svars, fvars, hvars, nvars, a_env, a_mu>>

\* evaluate's loop: GetMetrics for the next server, `continue` on an error or
\* on no sample, else lastMetric
EvaluateServer ==
    /\ a_pc = "eval"
    /\ a_i <= Len(a_servers)
    /\ \E view \in MetricViews :
          /\ a_metric' = view
          /\ IF view.none
             THEN /\ a_i' = a_i + 1
                  /\ a_decision' = "skip"
                  /\ UNCHANGED a_pc
             ELSE /\ a_pc' = "check"
                  /\ a_decision' = "none"
                  /\ UNCHANGED a_i
    /\ NoScalePass
    /\ UNCHANGED <<lastScaleUp, lastScaleDown, ScaleUpCooldown, ScaleDownCooldown,
                   a_now, a_servers, a_passStart, a_ups>>
    /\ UNCHANGED <<plvars, svars, fvars, hvars, nvars, a_env, a_mu>>

\* evaluate's loop is over: evaluate returns nil
EvaluateReturn ==
    /\ a_pc = "eval"
    /\ a_i > Len(a_servers)
    /\ a_pc' = "idle"
    /\ a_servers' = <<>>
    /\ a_i' = 1
    /\ UNCHANGED <<lastScaleUp, lastScaleDown, ScaleUpCooldown, ScaleDownCooldown,
                   a_now, a_metric, a_decision, a_src, a_target,
                   a_containers, a_k, a_attempts, a_passStart, a_ups, ecoScore>>
    /\ UNCHANGED <<plvars, svars, fvars, hvars, nvars, a_env, a_mu>>

\* the server's evaluation ends without a scale pass
Skip ==
    /\ a_pc' = "eval"
    /\ a_i' = a_i + 1
    /\ a_decision' = "skip"
    /\ UNCHANGED <<a_servers, a_metric, a_src, a_target, a_containers, a_k,
                   a_attempts, ecoScore, a_mu>>

\* scaleUp/scaleDown up to the relocation loop: a.mu.Lock() with its
\* deferred Unlock, then findEnergyEfficientServer
\* (whose GetInstances may fail, which ends evaluate) over the scores the
\* servers have by now, then getServerContainers
EnterScale(kind) ==
    \/ /\ a_pc' = "idle"
       /\ a_decision' = "error"
       /\ a_servers' = <<>>
       /\ a_i' = 1
       /\ UNCHANGED <<a_metric, a_src, a_target, a_containers, a_k, a_attempts,
                      ecoScore, a_mu>>
    \/ /\ \E scores \in a_env.scores :
             /\ ecoScore' = scores
             /\ \E target \in {findEnergyEfficientServer(scores, servers) :
                                   servers \in a_env.orders} :
                   a_target' = target
       /\ \E containers \in a_env.lists : a_containers' = containers
       /\ a_src' = a_servers[a_i]
       /\ a_k' = 1
       /\ a_attempts' = <<>>
       /\ a_mu' = "scale"
       /\ a_pc' = kind
       /\ a_decision' = kind
       /\ a_metric' = NoMetric
       /\ UNCHANGED <<a_servers, a_i>>

\* evaluate's loop body after lastMetric: shouldScaleUp, shouldScaleDown, and
\* the start of scaleUp or scaleDown (with its own eco-score test)
Decide ==
    /\ a_pc = "check"
    /\ IF shouldScaleUp(a_metric) THEN EnterScale("up")
       ELSE IF shouldScaleDown(a_metric)
            THEN IF EmptySamplesScore > 80 THEN Skip ELSE EnterScale("down")
            ELSE Skip
    /\ UNCHANGED <<lastScaleUp, lastScaleDown, ScaleUpCooldown, ScaleDownCooldown,
                   a_now, a_passStart, a_ups>>
    /\ UNCHANGED <<plvars, svars, fvars, hvars, nvars, a_env>>

\* what is left of evaluate's pass when evaluate returns an error
EvaluateAborted ==
    /\ a_pc' = "idle"
    /\ a_servers' = <<>>
    /\ a_i' = 1
    /\ a_mu' = "free"

\* a scaleUp loop that gives up at the first relocation that fails
ScaleUpMigrate_AbortOnError ==
    /\ a_pc = "up"
    /\ a_k <= Len(a_containers)
    /\ \E res \in {"nil", "err"} :
          /\ a_attempts' = Append(a_attempts, [c |-> a_containers[a_k], res |-> res])
          /\ IF res = "err" THEN EvaluateAborted /\ UNCHANGED a_k
             ELSE a_k' = a_k + 1 /\ UNCHANGED <<a_pc, a_servers, a_i, a_mu>>
    /\ UNCHANGED <<lastScaleUp, lastScaleDown, ScaleUpCooldown, ScaleDownCooldown,
                   a_now, a_metric, a_decision, a_src,
                   a_target, a_containers, a_passStart, a_ups>>
    /\ ecoScore' = NoScores
    /\ UNCHANGED <<plvars, svars, fvars, hvars, nvars, a_env>>

\* scaleUp's loop: MigrateContainer for the next container, `continue` on an error
ScaleUpMigrate ==
    /\ a_pc = "up"
    /\ a_k <= Len(a_containers)
    /\ \E res \in {"nil", "err"} :
          a_attempts' = Append(a_attempts, [c |-> a_containers[a_k], res |-> res])
    /\ a_k' = a_k + 1
    /\ UNCHANGED <<lastScaleUp, lastScaleDown, ScaleUpCooldown, ScaleDownCooldown,
                   a_now, a_pc, a_servers, a_i, a_metric, a_decision, a_src,
                   a_target, a_containers, a_passStart, a_ups>>
    /\ ecoScore' = NoScores
    /\ UNCHANGED <<plvars, svars, fvars, hvars, nvars, a_env, a_mu>>

\* a scaleUp that returns without stamping lastScaleUp
ScaleUpReturn_NoStamp ==
    /\ a_pc = "up"
    /\ a_k > Len(a_containers)
    /\ a_ups' = a_ups + 1
    /\ a_pc' = "eval"
    /\ a_i' = a_i + 1
    /\ UNCHANGED <<lastScaleUp, lastScaleDown, ScaleUpCooldown, ScaleDownCooldown, a_now,
                   a_servers, a_metric, a_decision, 
                   a_containers, a_k, a_attempts, a_passStart>>
    /\ a_src' = ZeroServerID
    /\ a_target' = ZeroServerID
    /\ ecoScore' = NoScores
    /\ a_mu' = "free"
    /\ UNCHANGED <<plvars, svars, fvars, hvars, nvars, a_env>>

\* scaleUp after its loop: lastScaleUp = time.Now(), return nil
ScaleUpReturn ==
    /\ a_pc = "up"
    /\ a_k > Len(a_containers)
    /\ lastScaleUp' = a_now
    /\ a_ups' = a_ups + 1
    /\ a_pc' = "eval"
    /\ a_i' = a_i + 1
    /\ UNCHANGED <<lastScaleDown, ScaleUpCooldown, ScaleDownCooldown, a_now,
                   a_servers, a_metric, a_decision, 
                   a_containers, a_k, a_attempts, a_passStart>>
    /\ a_src' = ZeroServerID
    /\ a_target' = ZeroServerID
    /\ ecoScore' = NoScores
    /\ a_mu' = "free"
    /\ UNCHANGED <<plvars, svars, fvars, hvars, nvars, a_env>>

\* a scaleDown loop that carries on after a relocation that fails
ScaleDownMigrate_ContinueOnError ==
    /\ a_pc = "down"
    /\ a_k <= Len(a_containers)
    /\ \E res \in {"nil", "err"} :
          a_attempts' = Append(a_attempts, [c |-> a_containers[a_k], res |-> res])
    /\ a_k' = a_k + 1
    /\ UNCHANGED <<lastScaleUp, lastScaleDown, ScaleUpCooldown, ScaleDownCooldown,
                   a_now, a_pc, a_servers, a_i, a_metric, a_decision, a_src,
                   a_target, a_containers, a_passStart, a_ups>>
    /\ ecoScore' = NoScores
    /\ UNCHANGED <<plvars, svars, fvars, hvars, nvars, a_env, a_mu>>

\* a scaleDown that stamps lastScaleDown before it returns a relocation error
ScaleDownMigrate_StampOnError ==
    /\ a_pc = "down"
    /\ a_k <= Len(a_containers)
    /\ \E res \in {"nil", "err"} :
          /\ a_attempts' = Append(a_attempts, [c |-> a_containers[a_k], res |-> res])
          /\ IF res = "err"
             THEN EvaluateAborted /\ UNCHANGED a_k /\ lastScaleDown' = a_now
             ELSE /\ a_k' = a_k + 1
                  /\ UNCHANGED <<a_pc, a_servers, a_i, a_mu, lastScaleDown>>
    /\ UNCHANGED <<lastScaleUp, ScaleUpCooldown, ScaleDownCooldown,
                   a_now, a_metric, a_decision, a_src,
                   a_target, a_containers, a_passStart, a_ups>>
    /\ ecoScore' = NoScores
    /\ UNCHANGED <<plvars, svars, fvars, hvars, nvars, a_env>>

\* scaleDown's loop: MigrateContainer for the next container; an error is
\* returned, and evaluate returns it
ScaleDownMigrate ==
    /\ a_pc = "down"
    /\ a_k <= Len(a_containers)
    /\ \E res \in {"nil", "err"} :
          /\ a_attempts' = Append(a_attempts, [c |-> a_containers[a_k], res |-> res])
          /\ IF res = "err" THEN EvaluateAborted /\ UNCHANGED a_k
             ELSE a_k' = a_k + 1 /\ UNCHANGED <<a_pc, a_servers, a_i, a_mu>>
    /\ UNCHANGED <<lastScaleUp, lastScaleDown, ScaleUpCooldown, ScaleDownCooldown,
                   a_now, a_metric, a_decision, a_src,
                   a_target, a_containers, a_passStart, a_ups>>
    /\ ecoScore' = NoScores
    /\ UNCHANGED <<plvars, svars, fvars, hvars, nvars, a_env>>

\* scaleDown after its loop: lastScaleDown = time.Now(), return nil
ScaleDownReturn ==
    /\ a_pc = "down"
    /\ a_k > Len(a_containers)
    /\ lastScaleDown' = a_now
    /\ a_pc' = "eval"
    /\ a_i' = a_i + 1
    /\ UNCHANGED <<lastScaleUp, ScaleUpCooldown, ScaleDownCooldown, a_now,
                   a_servers, a_metric, a_decision, 
                   a_containers, a_k, a_attempts, a_passStart, a_ups>>
    /\ a_src' = ZeroServerID
    /\ a_target' = ZeroServerID
    /\ ecoScore' = NoScores
    /\ a_mu' = "free"
    /\ UNCHANGED <<plvars, svars, fvars, hvars, nvars, a_env>>

ScalerNext ==
    \/ ScalerTick
    \/ Evaluate
    \/ EvaluateServer
    \/ EvaluateReturn
    \/ Decide
    \/ ScaleUpMigrate
    \/ ScaleUpReturn
    \/ ScaleDownMigrate
    \/ ScaleDownReturn

SpecScaler == ScalerInit /\ [][ScalerNext]_vars

SpecScalePass == ScalePassInit /\ [][ScalerNext]_vars

(***************************************************************************)
(* Planner: actions                                                        *)
(***************************************************************************)
\* NewPlanner, with the store untouched
PlannerInit ==
    /\ activePlans = {}
    /\ p_mu = "free"
    /\ ConcurrentMigrations \in 1..MaxCap
    /\ ecoScore \in [Servers -> ScoreValues]
    /\ p_pc = "tick"
    /\ plans = <<>>
    /\ idx = 1
    /\ sem = 0
    /\ wg = 0
    /\ w_pc = [c \in Containers |-> "none"]
    /\ migrateErr = [c \in Containers |-> "none"]
    /\ planErr = FALSE
    /\ retry = {}
    /\ p_loc = NoLoc
    /\ FleetOfMain
    /\ SliceIdle
    /\ AnalyzerIdle
    /\ TagManagerIdle
    /\ ScalerIdle
    /\ buffer = <<>>
    /\ metrics = NoMetrics
    /\ c_mu = [writer |-> "none", readers |-> {}]
    /\ RetentionPeriod = 0
    /\ now = 0
    /\ nextSeq = 1
    /\ lastErr = "nil"
    /\ consumer = [pc |-> "recv", batch |-> NoBatch]
    /\ cleanup = [pc |-> "idle", cutoff |-> 0, before |-> NoMetrics]
    /\ reader = [r \in Readers |-> [pc |-> "idle", server |-> NoServer]]
    /\ got = [server |-> NoServer, data |-> <<>>, err |-> "nil"]
    /\ incorporated = {}

\* a Start that goes on to executeMigrations after a failed planMigrations
PlanMigrations_ExecuteAnyway ==
    /\ p_pc = "tick"
    /\ p_mu = "free"
    /\ \/ /\ planErr' = TRUE
          /\ UNCHANGED <<activePlans, p_loc>>
       \/ /\ planErr' = FALSE
          /\ \E servers \in SortedServers :
             \E loc \in [Containers -> Servers \cup {NoServer}] :
                /\ activePlans' = planServers(activePlans, servers, servers, loc)
                /\ p_loc' = loc
    /\ p_pc' = "exec"
    /\ UNCHANGED <<p_mu, ConcurrentMigrations, ecoScore, plans, idx, sem, wg,
                   w_pc, migrateErr, retry>>
    /\ UNCHANGED <<svars, evars>>

\* Start's ticker case, first half: planMigrations.  GetInstances fails, or
\* returns the fleet, which sort.Slice orders; loc is where the orchestration
\* collaborator (getServerContainers) reports each container.
PlanMigrations ==
    /\ p_pc = "tick"
    /\ p_mu = "free"
    /\ \/ /\ planErr' = TRUE
          /\ UNCHANGED <<activePlans, p_pc, p_loc>>
       \/ /\ planErr' = FALSE
          /\ \E servers \in SortedServers :
             \E loc \in [Containers -> Servers \cup {NoServer}] :
                /\ activePlans' = planServers(activePlans, servers, servers, loc)
                /\ p_loc' = loc
          /\ p_pc' = "exec"
    /\ UNCHANGED <<p_mu, ConcurrentMigrations, ecoScore, plans, idx, sem, wg,
                   w_pc, migrateErr, retry>>
    /\ UNCHANGED <<svars, evars>>

\* executeMigrations up to its for loop: lock, snapshot, sort
ExecuteBegin ==
    /\ p_pc = "exec"
    /\ p_mu = "free"
    /\ p_mu' = "main"
    /\ \E sorted \in SortedPlans(activePlans) : plans' = sorted
    /\ idx' = 1
    /\ sem' = 0
    /\ wg' = 0
    /\ p_pc' = "loop"
    /\ p_loc' = NoLoc
    /\ UNCHANGED <<activePlans, ConcurrentMigrations, ecoScore, w_pc,
                   migrateErr, planErr, retry>>
    /\ UNCHANGED <<svars, evars>>

\* a semaphore whose send never waits (a channel with room to spare)
SemAcquirable_Unbounded == TRUE

\* whether the send `sem <- struct{}{}` can proceed
SemAcquirable == sem < ConcurrentMigrations

\* one iteration of the for loop: wg.Add(1), take a slot, start the goroutine
ExecuteSpawn ==
    /\ p_pc = "loop"
    /\ idx <= Len(plans)
    /\ SemAcquirable
    /\ wg' = wg + 1
    /\ sem' = sem + 1
    /\ w_pc' = [w_pc EXCEPT ![plans[idx].ContainerID] = "start"]
    /\ idx' = idx + 1
    /\ UNCHANGED <<activePlans, p_mu, ConcurrentMigrations, ecoScore, p_pc,
                   plans, migrateErr, planErr, retry, p_loc>>
    /\ UNCHANGED <<svars, evars>>

\* wg.Wait() returns, the deferred Unlock runs, the locals are dropped and
\* Start goes back to its ticker
ExecuteReturn ==
    /\ p_pc = "loop"
    /\ idx > Len(plans)
    /\ wg = 0
    /\ p_mu' = "free"
    /\ p_pc' = "tick"
    /\ retry' = {plans[i] : i \in {j \in 1..Len(plans) :
                                     migrateErr[plans[j].ContainerID] = "err"}}
    /\ plans' = <<>>
    /\ idx' = 1
    /\ w_pc' = [c \in Containers |-> "none"]
    /\ migrateErr' = [c \in Containers |-> "none"]
    /\ UNCHANGED <<activePlans, ConcurrentMigrations, ecoScore, sem, wg, planErr,
                   p_loc>>
    /\ UNCHANGED <<svars, evars>>

\* whether the goroutine's p.mu.Lock() can proceed
WorkerLockable == p_mu = "free"

\* the goroutine started for the plan of container c, one step at a time:
\*   "start"  the go statement has run; the goroutine gets to call MigrateContainer
\*   "call"   MigrateContainer is in flight and returns
\*   "lock"   err == nil: p.mu.Lock()
\*   "delete" delete(p.activePlans, plan.ContainerID); p.mu.Unlock()
\*   "exit"   the deferred <-sem and wg.Done()
MigrationGoroutine(c) ==
    /\ w_pc[c] \in {"start", "call", "lock", "delete", "exit"}
    /\ CASE w_pc[c] = "start" ->
              /\ w_pc' = [w_pc EXCEPT ![c] = "call"]
              /\ UNCHANGED <<activePlans, p_mu, sem, wg, migrateErr>>
         [] w_pc[c] = "call" ->
              /\ \E err \in {"nil", "err"} :
                    /\ migrateErr' = [migrateErr EXCEPT ![c] = err]
                    /\ w_pc' = [w_pc EXCEPT ![c] =
                                   IF err = "nil" THEN "lock" ELSE "exit"]
              /\ UNCHANGED <<activePlans, p_mu, sem, wg>>
         [] w_pc[c] = "lock" ->
              /\ WorkerLockable
              /\ p_mu' = c
              /\ w_pc' = [w_pc EXCEPT ![c] = "delete"]
              /\ UNCHANGED <<activePlans, sem, wg, migrateErr>>
         [] w_pc[c] = "delete" ->
              /\ activePlans' = MapDelete(activePlans, c)
              /\ p_mu' = "free"
              /\ w_pc' = [w_pc EXCEPT ![c] = "exit"]
              /\ UNCHANGED <<sem, wg, migrateErr>>
         [] w_pc[c] = "exit" ->
              /\ sem' = sem - 1
              /\ wg' = wg - 1
              /\ w_pc' = [w_pc EXCEPT ![c] = "done"]
              /\ UNCHANGED <<activePlans, p_mu, migrateErr>>
    /\ UNCHANGED <<ConcurrentMigrations, ecoScore, p_pc, plans, idx, planErr,
                   retry, p_loc>>
    /\ UNCHANGED <<svars, evars>>

PlannerNext ==
    \/ PlanMigrations
    \/ ExecuteBegin
    \/ ExecuteSpawn
    \/ ExecuteReturn
    \/ \E c \in Containers : MigrationGoroutine(c)

\* the Migration Planner's loop (Planner.Start) and its goroutines
SpecPlanner == PlannerInit /\ [][PlannerNext]_vars

\* the same under the Go scheduler: a goroutine that can run does run
FairSpecPlanner == SpecPlanner /\ WF_vars(PlannerNext)

\* the context given to Start is cancelled
Cancel ==
    /\ ctx = "live"
    /\ ctx' = "done"
    /\ UNCHANGED <<MinPowerSaving, MaxDowntime, Region, PowerUsage>>
    /\ UNCHANGED <<pvars, svars, hvars, avars, nvars>>

\* Start's select takes the case <-ctx.Done() and returns ctx.Err()
StartReturn ==
    /\ p_pc = "tick"
    /\ ctx = "done"
    /\ p_pc' = "stopped"
    /\ UNCHANGED <<activePlans, p_mu, ConcurrentMigrations, ecoScore, plans, idx,
                   sem, wg, w_pc, migrateErr, planErr, retry, p_loc>>
    /\ UNCHANGED <<svars, evars>>

ShutdownNext ==
    \/ PlanMigrations
    \/ ExecuteBegin
    \/ ExecuteSpawn
    \/ ExecuteReturn
    \/ \E c \in Containers : MigrationGoroutine(c)
    \/ Cancel
    \/ StartReturn

\* the planner with a context that may be cancelled.  A goroutine that can
\* run does run, and select, which picks at random among its ready cases,
\* does not pass over <-ctx.Done() forever
SpecShutdown ==
    /\ PlannerInit
    /\ [][ShutdownNext]_vars
    /\ WF_vars(PlannerNext)
    /\ SF_vars(StartReturn)

\* a planner before its first planning pass, over every configuration,
\* region layout, container power and eco-score of the fleet
PlanningInit ==
    /\ PlannerIdle
    /\ ecoScore \in [Servers -> ScoreValues] \cup {ExampleScores}
    /\ \E config \in PlannerConfigs :
          /\ MinPowerSaving = config.MinPowerSaving
          /\ MaxDowntime = config.MaxDowntime
    /\ Region \in {FleetRegion, OneRegion}
    /\ PowerUsage \in {FleetPowerUsage, ExamplePowerUsage, HeavyPowerUsage}
    /\ ctx = "live"
    /\ StoreIdle
    /\ SliceIdle
    /\ AnalyzerIdle
    /\ TagManagerIdle
    /\ ScalerIdle

\* planMigrations on its own, as Start's ticker case calls it
SpecPlanning == PlanningInit /\ [][PlanMigrations]_vars

(***************************************************************************)
(* Metric Store (Collector): functions and actions                         *)
(*                                                                         *)
(* Collector.mu is a sync.RWMutex; Go also keeps new readers out while a   *)
(* writer waits, which only removes interleavings from the ones explored.  *)
(***************************************************************************)
\* t.After(u) taken as "not before"
After_OrEqual(t, u) == t >= u

\* t.After(u)
After(t, u) == t > u

\* a sweep that filters nothing
filterData_KeepAll(data, cutoff) == data

\* the inner loop of cleanupOldMetrics: the samples of data that are after cutoff
filterData(data, cutoff) ==
    SelectSeq(data, LAMBDA metric : After(metric.Timestamp, cutoff))

\* a sweep that also deletes the entries it leaves empty
sweepMetrics_DropEmpty(m, cutoff) ==
    [s \in {x \in DOMAIN m : filterData(m[x].Data, cutoff) # <<>>} |->
        [m[s] EXCEPT !.Data = filterData(m[s].Data, cutoff)]]

\* the outer loop of cleanupOldMetrics over the map
sweepMetrics(m, cutoff) ==
    [s \in DOMAIN m |-> [m[s] EXCEPT !.Data = filterData(m[s].Data, cutoff)]]

\* the batch put in front of the stored samples
appendData_Prepend(data, batchMetrics) == batchMetrics \o data

\* append(c.metrics[id].Data, batch.Metrics...)
\* an append that adds the batch twice
appendData_Twice(data, batchMetrics) == data \o batchMetrics \o batchMetrics

appendData(data, batchMetrics) == data \o batchMetrics

\* the body of processBatch on the map
processBatch(m, batch) ==
    LET sid == batch.ServerID
        old == IF sid \in DOMAIN m THEN m[sid].Data ELSE <<>>
    IN  [s \in DOMAIN m \cup {sid} |->
            IF s = sid
            THEN [Data |-> appendData(old, batch.Metrics),
                  LastUpdate |-> batch.Timestamp]
            ELSE m[s]]

\* what GetMetrics returns for sid on the map m: (data, err)
getMetricsResult(m, sid) ==
    IF sid \in DOMAIN m
    THEN [data |-> m[sid].Data, err |-> "nil"]
    ELSE [data |-> <<>>, err |-> "no metrics found for server"]

\* an RLock that does not wait for the writer
CanRLock_IgnoresWriter == TRUE

\* sync.RWMutex: when Lock and when RLock can proceed
CanLock == c_mu.writer = "none" /\ c_mu.readers = {}

\* a Lock call that is waiting keeps new readers out
CanRLock == c_mu.writer = "none" /\ consumer.pc # "lock"

\* NewCollector, with the planner untouched
CollectorInit ==
    /\ buffer = <<>>
    /\ metrics = NoMetrics
    /\ c_mu = [writer |-> "none", readers |-> {}]
    /\ RetentionPeriod \in 0..MaxRetention
    /\ now = 0
    /\ nextSeq = 1
    /\ lastErr = "nil"
    /\ consumer = [pc |-> "recv", batch |-> NoBatch]
    /\ cleanup = [pc |-> "idle", cutoff |-> 0, before |-> NoMetrics]
    /\ reader = [r \in Readers |-> [pc |-> "idle", server |-> NoServer]]
    /\ got = [server |-> NoServer, data |-> <<>>, err |-> "nil"]
    /\ incorporated = {}
    /\ activePlans = {}
    /\ p_mu = "free"
    /\ ConcurrentMigrations = 1
    /\ ecoScore = [s \in Servers |-> 0]
    /\ p_pc = "tick"
    /\ plans = <<>>
    /\ idx = 1
    /\ sem = 0
    /\ wg = 0
    /\ w_pc = [c \in Containers |-> "none"]
    /\ migrateErr = [c \in Containers |-> "none"]
    /\ planErr = FALSE
    /\ retry = {}
    /\ p_loc = NoLoc
    /\ FleetOfMain
    /\ SliceIdle
    /\ AnalyzerIdle
    /\ TagManagerIdle
    /\ ScalerIdle

\* time passes
ClockTick ==
    /\ now < MaxTime
    /\ now' = now + 1
    /\ UNCHANGED <<buffer, metrics, c_mu, RetentionPeriod, nextSeq, lastErr,
                   consumer, cleanup, reader, got, incorporated>>
    /\ UNCHANGED <<pvars, evars>>

\* handlePostMetrics reads time.Now() before it calls CollectMetrics: the
\* stamp of a sample is the time of the send or an earlier one
StampLags == {0, 1}
StampTimes == {t \in 0..now : now - t \in StampLags}

\* an ingest that makes room by dropping the oldest batch
CollectMetrics_DropOldest(sid) ==
    /\ nextSeq <= MaxSamples \/ Len(buffer) >= BufferSize
    /\ \E ts \in StampTimes :
          buffer' = Append(IF Len(buffer) < BufferSize THEN buffer ELSE Tail(buffer),
                           MetricBatch(sid, MetricData(ts, nextSeq), now))
    /\ nextSeq' = nextSeq + 1
    /\ lastErr' = "nil"
    /\ UNCHANGED <<metrics, c_mu, RetentionPeriod, now, consumer, cleanup,
                   reader, got, incorporated>>
    /\ UNCHANGED <<pvars, evars>>

\* handlePostMetrics stamps the sample with time.Now() and calls
\* CollectMetrics(serverID, data): the select with its default case
CollectMetrics(sid) ==
    /\ nextSeq <= MaxSamples \/ Len(buffer) >= BufferSize
    /\ IF Len(buffer) < BufferSize
       THEN /\ \E ts \in StampTimes :
                  buffer' = Append(buffer, MetricBatch(sid, MetricData(ts, nextSeq), now))
            /\ nextSeq' = nextSeq + 1
            /\ lastErr' = "nil"
       ELSE /\ lastErr' = "metric buffer is full"
            /\ UNCHANGED <<buffer, nextSeq>>
    /\ UNCHANGED <<metrics, c_mu, RetentionPeriod, now, consumer, cleanup,
                   reader, got, incorporated>>
    /\ UNCHANGED <<pvars, evars>>

\* processBuffer: `case batch := <-c.buffer`
ProcessBufferReceive ==
    /\ consumer.pc = "recv"
    /\ buffer # <<>>
    /\ consumer' = [pc |-> "lock", batch |-> Head(buffer)]
    /\ buffer' = Tail(buffer)
    /\ UNCHANGED <<metrics, c_mu, RetentionPeriod, now, nextSeq, lastErr,
                   cleanup, reader, got, incorporated>>
    /\ UNCHANGED <<pvars, evars>>

\* processBatch: c.mu.Lock()
ProcessBatchLock ==
    /\ consumer.pc = "lock"
    /\ CanLock
    /\ c_mu' = [c_mu EXCEPT !.writer = "consumer"]
    /\ consumer' = [consumer EXCEPT !.pc = "write"]
    /\ UNCHANGED <<buffer, metrics, RetentionPeriod, now, nextSeq, lastErr,
                   cleanup, reader, got, incorporated>>
    /\ UNCHANGED <<pvars, evars>>

\* processBatch: the body and the deferred c.mu.Unlock()
ProcessBatchWrite ==
    /\ consumer.pc = "write"
    /\ metrics' = processBatch(metrics, consumer.batch)
    /\ incorporated' = incorporated \cup {consumer.batch.ServerID}
    /\ c_mu' = [c_mu EXCEPT !.writer = "none"]
    /\ consumer' = [pc |-> "recv", batch |-> NoBatch]
    /\ UNCHANGED <<buffer, RetentionPeriod, now, nextSeq, lastErr, cleanup,
                   reader, got>>
    /\ UNCHANGED <<pvars, evars>>

\* cleanupOldMetrics: `case <-ticker.C`, c.mu.Lock(),
\* cutoff := time.Now().Add(-RetentionPeriod) and the sweep, up to the
\* Unlock; `before` remembers the map the sweep started from
CleanupSweep ==
    /\ cleanup.pc = "idle"
    /\ CanLock
    /\ c_mu' = [c_mu EXCEPT !.writer = "cleanup"]
    /\ LET cutoff == now - RetentionPeriod
       IN  /\ metrics' = sweepMetrics(metrics, cutoff)
           /\ cleanup' = [pc |-> "swept", cutoff |-> cutoff, before |-> metrics]
    /\ UNCHANGED <<buffer, RetentionPeriod, now, nextSeq, lastErr,
                   consumer, reader, got, incorporated>>
    /\ UNCHANGED <<pvars, evars>>

\* cleanupOldMetrics: c.mu.Unlock()
CleanupUnlock ==
    /\ cleanup.pc = "swept"
    /\ c_mu' = [c_mu EXCEPT !.writer = "none"]
    /\ cleanup' = [pc |-> "idle", cutoff |-> 0, before |-> NoMetrics]
    /\ UNCHANGED <<buffer, metrics, RetentionPeriod, now, nextSeq, lastErr,
                   consumer, reader, got, incorporated>>
    /\ UNCHANGED <<pvars, evars>>

\* GetMetrics(serverID): c.mu.RLock()
GetMetricsRLock(r, sid) ==
    /\ reader[r].pc = "idle"
    /\ CanRLock
    /\ c_mu' = [c_mu EXCEPT !.readers = @ \cup {r}]
    /\ reader' = [reader EXCEPT ![r] = [pc |-> "reading", server |-> sid]]
    /\ UNCHANGED <<buffer, metrics, RetentionPeriod, now, nextSeq, lastErr,
                   consumer, cleanup, got, incorporated>>
    /\ UNCHANGED <<pvars, evars>>

\* GetMetrics: the lookup, the return and the deferred c.mu.RUnlock()
GetMetricsReturn(r) ==
    /\ reader[r].pc = "reading"
    /\ LET res == getMetricsResult(metrics, reader[r].server)
       IN  got' = [server |-> reader[r].server, data |-> res.data, err |-> res.err]
    /\ reader' = [reader EXCEPT ![r] = [pc |-> "idle", server |-> NoServer]]
    /\ c_mu' = [c_mu EXCEPT !.readers = @ \ {r}]
    /\ UNCHANGED <<buffer, metrics, RetentionPeriod, now, nextSeq, lastErr,
                   consumer, cleanup, incorporated>>
    /\ UNCHANGED <<pvars, evars>>

CollectorNext ==
    \/ ClockTick
    \/ \E sid \in StoreServers : CollectMetrics(sid)
    \/ ProcessBufferReceive
    \/ ProcessBatchLock
    \/ ProcessBatchWrite
    \/ CleanupSweep
    \/ CleanupUnlock
    \/ \E r \in Readers, sid \in StoreServers : GetMetricsRLock(r, sid)
    \/ \E r \in Readers : GetMetricsReturn(r)

\* the Metric Store's goroutines (Collector.Start) and its callers
SpecStore == CollectorInit /\ [][CollectorNext]_vars

\* the store at one instant of the clock: the producers, the consumer, the
\* sweep and the readers in every interleaving
IngestNext ==
    \/ \E sid \in StoreServers : CollectMetrics(sid)
    \/ ProcessBufferReceive
    \/ ProcessBatchLock
    \/ ProcessBatchWrite
    \/ CleanupSweep
    \/ CleanupUnlock
    \/ \E r \in Readers, sid \in StoreServers : GetMetricsRLock(r, sid)
    \/ \E r \in Readers : GetMetricsReturn(r)

\* the same under the Go scheduler and sync.RWMutex: a goroutine that can
\* run does run, a reader or the sweep gives the lock back, and a Lock call
\* that waits is not passed over for ever
FairSpecIngest ==
    /\ CollectorInit
    /\ [][IngestNext]_vars
    /\ WF_vars(ProcessBufferReceive)
    /\ SF_vars(ProcessBatchLock)
    /\ WF_vars(ProcessBatchWrite)
    /\ WF_vars(CleanupUnlock)
    /\ \A r \in Readers : WF_vars(GetMetricsReturn(r))

(***************************************************************************)
(* The planner and the autoscaler together, as main starts them: two       *)
(* periodic tasks over one fleet and one provider.  The scores the planner *)
(* reads are the ones the autoscaler's scale pass has just read.           *)
(***************************************************************************)
FleetInit ==
    /\ ScalerStart
    /\ ScaleUpCooldown = 0
    /\ ScaleDownCooldown = 0
    /\ a_env = [horizon |-> 0,
                scores |-> {[s \in Servers |-> IF s = "A" THEN 90 ELSE IF s = "B" THEN 40 ELSE 0]},
                listing |-> {<<"A", "B", "C">>},
                orders |-> {<<"A", "B", "C">>},
                lists |-> {<<1>>}]

FleetNext ==
    \/ PlanMigrations
    \/ ExecuteBegin
    \/ ExecuteSpawn
    \/ ExecuteReturn
    \/ \E c \in Containers : MigrationGoroutine(c)
    \/ Evaluate
    \/ EvaluateServer
    \/ EvaluateReturn
    \/ Decide
    \/ ScaleUpMigrate
    \/ ScaleUpReturn
    \/ ScaleDownMigrate
    \/ ScaleDownReturn

SpecFleet == FleetInit /\ [][FleetNext]_vars

(***************************************************************************)
(* Scoring Engine (Analyzer): arithmetic, functions and actions            *)
(*                                                                         *)
(* A float64 is kept as a reduced fraction, so the functions compute       *)
(* exact values; a square root is kept as the root of a fraction.          *)
(***************************************************************************)
RECURSIVE GCD(_, _)
GCD(a, b) == IF b = 0 THEN a ELSE GCD(b, a % b)

Abs(n) == IF n < 0 THEN -n ELSE n

FReduce(n, d) ==
    LET g == GCD(Abs(n), d)
    IN  FNum(n \div g, d \div g)

FNeg(x) == IF x.kind = "NaN" THEN FNaN ELSE FNum(-x.n, x.d)

FAdd(x, y) ==
    IF x.kind = "NaN" \/ y.kind = "NaN" THEN FNaN
    ELSE LET l == (x.d \div GCD(x.d, y.d)) * y.d
         IN  FReduce(x.n * (l \div x.d) + y.n * (l \div y.d), l)

FSub(x, y) == FAdd(x, FNeg(y))

FMul(x, y) ==
    IF x.kind = "NaN" \/ y.kind = "NaN" THEN FNaN
    ELSE LET g1 == GCD(Abs(x.n), y.d)
             g2 == GCD(Abs(y.n), x.d)
         IN  FNum((x.n \div g1) * (y.n \div g2), (x.d \div g2) * (y.d \div g1))

\* math.Abs
FAbs(x) == IF x.kind = "NaN" THEN FNaN ELSE FNum(Abs(x.n), x.d)

\* math.Max(0, x): NaN if x is NaN
FMax0(x) == IF x.kind = "NaN" THEN FNaN ELSE IF x.n < 0 THEN FNum(0, 1) ELSE x

\* math.Sqrt(x), kept as the root of x
FSqrt(x) == [kind |-> "sqrt", of |-> x]

RECURSIVE FSum(_)
FSum(values) ==
    IF values = <<>> THEN FNum(0, 1)
    ELSE FAdd(Head(values), FSum(Tail(values)))

\* sum / float64(len): 0/0 is NaN
FOver(sum, len) == IF len = 0 THEN FNaN ELSE FMul(sum, FNum(1, len))

\* models.MetricData: PowerUsage a float64, CPUUsage and CarbonFootprint whole
Sample(ts, power, cpu, carbon) ==
    [Timestamp |-> ts, PowerUsage |-> FNum(power, 1), CPUUsage |-> cpu,
     CarbonFootprint |-> carbon]

PowerValuesOf(samples) == [i \in 1..Len(samples) |-> samples[i].PowerUsage]

calculateMean(samples) == FOver(FSum(PowerValuesOf(samples)), Len(samples))

\* sort.Float64s: the values in non-decreasing order
SortedValues(values) ==
    LET order == CHOOSE f \in Perms(1..Len(values)) :
                     \A i, j \in 1..Len(values) :
                         i < j => ~FLess(values[f[j]], values[f[i]])
    IN  [i \in 1..Len(values) |-> values[order[i]]]

calculateMedian(samples) ==
    LET values == SortedValues(PowerValuesOf(samples))
        mid == Len(values) \div 2
    IN  IF Len(values) % 2 = 0
        THEN FMul(FAdd(values[mid], values[mid + 1]), FNum(1, 2))
        ELSE values[mid + 1]

calculateStdDev(samples, mean) ==
    LET squares == [i \in 1..Len(samples) |->
                       FMul(FSub(samples[i].PowerUsage, mean),
                            FSub(samples[i].PowerUsage, mean))]
    IN  FSqrt(FOver(FSum(squares), Len(samples)))

RECURSIVE minMaxFrom(_, _, _)
minMaxFrom(rest, min, max) ==
    IF rest = <<>> THEN <<min, max>>
    ELSE LET v == Head(rest).PowerUsage
         IN  minMaxFrom(Tail(rest),
                        IF FLess(v, min) THEN v ELSE min,
                        IF FLess(max, v) THEN v ELSE max)

calculateMinMax(samples) ==
    minMaxFrom(samples, samples[1].PowerUsage, samples[1].PowerUsage)

\* an analyzeTrend whose margin is 10% of the second half's mean
analyzeTrend_MarginOfSecondHalf(samples) ==
    IF Len(samples) < 2 THEN "stable"
    ELSE LET half == Len(samples) \div 2
             firstMean == calculateMean(SubSeq(samples, 1, half))
             secondMean == calculateMean(SubSeq(samples, half + 1, Len(samples)))
             diff == FSub(secondMean, firstMean)
             threshold == FMul(FNum(1, 10), secondMean)
         IN  IF FLess(threshold, diff) THEN "increasing"
             ELSE IF FLess(diff, FNeg(threshold)) THEN "decreasing"
             ELSE "stable"

analyzeTrend(samples) ==
    IF Len(samples) < 2 THEN "stable"
    ELSE LET half == Len(samples) \div 2
             firstMean == calculateMean(SubSeq(samples, 1, half))
             secondMean == calculateMean(SubSeq(samples, half + 1, Len(samples)))
             diff == FSub(secondMean, firstMean)
             threshold == FMul(FNum(1, 10), firstMean)
         IN  IF FLess(threshold, diff) THEN "increasing"
             ELSE IF FLess(diff, FNeg(threshold)) THEN "decreasing"
             ELSE "stable"

classifyAnomaly(value, mean) == IF FLess(mean, value) THEN "spike" ELSE "drop"

\* zScore > threshold where zScore is math.Abs(value - mean) / stdDev and
\* the threshold is positive: x/0 is NaN for x = 0, which compares false,
\* and +Inf otherwise
ZScoreExceeds(value, mean, stdDev, threshold) ==
    LET dist == FAbs(FSub(value, mean))
    IN  IF dist.kind = "NaN" \/ stdDev.of.kind = "NaN" THEN FALSE
        ELSE IF stdDev.of.n = 0 THEN dist.n # 0
        ELSE FLess(FMul(FMul(threshold, threshold), stdDev.of), FMul(dist, dist))

\* a detectAnomalies that flags a z-score equal to the threshold too
detectAnomalies_AtThreshold(samples, mean, stdDev, threshold) ==
    LET flagged == SelectSeq(samples, LAMBDA m :
                       /\ stdDev.of.n # 0
                       /\ ~FLess(FMul(FAbs(FSub(m.PowerUsage, mean)),
                                      FAbs(FSub(m.PowerUsage, mean))),
                                 FMul(FMul(threshold, threshold), stdDev.of)))
    IN  [i \in 1..Len(flagged) |->
            [Timestamp |-> flagged[i].Timestamp,
             Value |-> flagged[i].PowerUsage,
             Type |-> classifyAnomaly(flagged[i].PowerUsage, mean),
             Severity |-> [dist |-> FAbs(FSub(flagged[i].PowerUsage, mean)),
                           over |-> stdDev]]]

\* threshold is a.config.AnomalyThreshold
detectAnomalies(samples, mean, stdDev, threshold) ==
    LET flagged == SelectSeq(samples, LAMBDA m :
                       ZScoreExceeds(m.PowerUsage, mean, stdDev, threshold))
    IN  [i \in 1..Len(flagged) |->
            [Timestamp |-> flagged[i].Timestamp,
             Value |-> flagged[i].PowerUsage,
             Type |-> classifyAnomaly(flagged[i].PowerUsage, mean),
             Severity |-> [dist |-> FAbs(FSub(flagged[i].PowerUsage, mean)),
                           over |-> stdDev]]]

RECURSIVE peakFrom(_, _, _)
peakFrom(rest, maxUsage, peakTime) ==
    IF rest = <<>> THEN peakTime
    ELSE IF FLess(maxUsage, Head(rest).PowerUsage)
         THEN peakFrom(Tail(rest), Head(rest).PowerUsage, Head(rest).Timestamp)
         ELSE peakFrom(Tail(rest), maxUsage, peakTime)

findPeakUsageTime(samples) == peakFrom(samples, FNum(0, 1), ZeroTime)

calculatePowerScore(samples) ==
    FMax0(FSub(FNum(1, 1), FMul(calculateMean(samples), FNum(1, 1000))))

calculateUtilizationScore(samples) ==
    LET scores == [i \in 1..Len(samples) |->
                      FSub(FNum(1, 1),
                           FAbs(FSub(FNum(7, 10), FReduce(samples[i].CPUUsage, 100))))]
    IN  FOver(FSum(scores), Len(samples))

calculateCarbonScore(samples) ==
    LET carbon == [i \in 1..Len(samples) |-> FNum(samples[i].CarbonFootprint, 1)]
    IN  FMax0(FSub(FNum(1, 1), FOver(FSum(carbon), Len(samples))))

\* (powerScore*0.4 + utilizationScore*0.3 + carbonScore*0.3) * 100
weightedScore(samples) ==
    FMul(FAdd(FAdd(FMul(calculatePowerScore(samples), FNum(2, 5)),
                   FMul(calculateUtilizationScore(samples), FNum(3, 10))),
              FMul(calculateCarbonScore(samples), FNum(3, 10))),
         FNum(100, 1))

\* a calculateEfficiencyScore without its test for no samples
calculateEfficiencyScore_NoEmptyTest(samples) == weightedScore(samples)

calculateEfficiencyScore(samples) ==
    IF Len(samples) = 0 THEN FNum(0, 1) ELSE weightedScore(samples)

\* analyzer.CalculateEcoScore, the score the planner and the autoscaler ask for
CalculateEcoScore(samples) == calculateEfficiencyScore(samples)

\* Planner.getServerEcoScore over what GetMetrics answers
getServerEcoScoreFrom(answer) ==
    IF ~answer.found THEN FNum(0, 1) ELSE CalculateEcoScore(answer.data)

NoAnalysis == <<>>
InsufficientData == "insufficient data points for analysis"
NotFoundError == "no samples found for server"

\* the statistics AnalyzeServerMetrics computes once it has enough samples
Statistics == {"Mean", "Median", "StdDev", "Min", "Max", "Trend", "Anomalies",
               "PeakUsageTime", "EfficiencyScore"}

analysisOf(samples, config) ==
    LET mean == calculateMean(samples)
        stdDev == calculateStdDev(samples, mean)
        minMax == calculateMinMax(samples)
    IN  [Mean |-> mean,
         Median |-> calculateMedian(samples),
         StdDev |-> stdDev,
         Min |-> minMax[1],
         Max |-> minMax[2],
         Trend |-> analyzeTrend(samples),
         Anomalies |-> detectAnomalies(samples, mean, stdDev, config.AnomalyThreshold),
         PeakUsageTime |-> findPeakUsageTime(samples),
         EfficiencyScore |-> calculateEfficiencyScore(samples)]

\* an AnalyzeServerMetrics that lets through a series one sample short
AnalyzeServerMetrics_OneShort(answer, config) ==
    IF ~answer.found
    THEN [err |-> NotFoundError, analysis |-> NoAnalysis, computed |-> {}]
    ELSE IF Len(answer.data) < config.MinDataPoints - 1
    THEN [err |-> InsufficientData, analysis |-> NoAnalysis, computed |-> {}]
    ELSE [err |-> "nil", analysis |-> <<analysisOf(answer.data, config)>>,
          computed |-> Statistics]

\* the result (*MetricAnalysis, error): analysis is <<>> (nil) or <<the
\* analysis>>, computed the statistics the call worked out on its way
AnalyzeServerMetrics(answer, config) ==
    IF ~answer.found
    THEN [err |-> NotFoundError, analysis |-> NoAnalysis, computed |-> {}]
    ELSE IF Len(answer.data) < config.MinDataPoints
    THEN [err |-> InsufficientData, analysis |-> NoAnalysis, computed |-> {}]
    ELSE [err |-> "nil", analysis |-> <<analysisOf(answer.data, config)>>,
          computed |-> Statistics]

\* the samples a server may have retained, as <<power, cpu, carbon>>: power
\* draws around the trend margin and over the 1000 W base, CPU at the 70%
\* optimum, low, and over 170%, carbon footprints up to 2 kg
SampleKinds == {<<0, 70, 0>>, <<100, 70, 0>>, <<100, 300, 2>>, <<111, 20, 1>>,
                <<1200, 70, 0>>, <<1200, 300, 2>>}
SampleSeries == UNION {[1..n -> SampleKinds] : n \in 0..MaxSeries}
Retained(series) ==
    [i \in 1..Len(series) |-> Sample(i, series[i][1], series[i][2], series[i][3])]

AnalyzerInit ==
    /\ an_config \in [MinDataPoints : {2, 3}, AnomalyThreshold : {FNum(1, 1)}]
    /\ an_data \in {NotFound} \cup
                   {[found |-> TRUE, data |-> Retained(series)] : series \in SampleSeries}
    /\ an_out = NoCall
    /\ TagManagerIdle
    /\ PlannerIdle
    /\ ecoScore = NoScores
    /\ FleetOfMain
    /\ StoreIdle
    /\ SliceIdle
    /\ ScalerIdle

\* a caller asks for the server's analysis
Analyze ==
    /\ LET res == AnalyzeServerMetrics(an_data, an_config)
       IN  an_out' = [op |-> "analyze", err |-> res.err, analysis |-> res.analysis,
                      computed |-> res.computed, score |-> FNum(0, 1)]
    /\ UNCHANGED <<an_config, an_data, tm_config, profiles>>
    /\ UNCHANGED <<pvars, svars, fvars, hvars, avars>>

\* the planner asks for the server's eco-score
GetServerEcoScore ==
    /\ an_out' = [op |-> "score", err |-> "nil", analysis |-> NoAnalysis,
                  computed |-> {"EfficiencyScore"},
                  score |-> getServerEcoScoreFrom(an_data)]
    /\ UNCHANGED <<an_config, an_data, tm_config, profiles>>
    /\ UNCHANGED <<pvars, svars, fvars, hvars, avars>>

AnalyzerNext ==
    \/ Analyze
    \/ GetServerEcoScore

SpecAnalyzer == AnalyzerInit /\ [][AnalyzerNext]_vars

(***************************************************************************)
(* Tag Manager (internal/ecotags/manager.go)                               *)
(***************************************************************************)
\* TagManager.tags as initializeTags fills it
EcoTags ==
    [Name \in {"eco-efficient", "energy-intensive", "carbon-neutral",
               "optimizable", "peak-hours"} |->
        CASE Name = "eco-efficient" ->
                 [Score |-> FNum(100, 1), Weight |-> FNum(1, 1), Threshold |-> FNum(80, 1)]
          [] Name = "energy-intensive" ->
                 [Score |-> FNum(20, 1), Weight |-> FNum(1, 1), Threshold |-> FNum(500, 1)]
          [] Name = "carbon-neutral" ->
                 [Score |-> FNum(100, 1), Weight |-> FNum(3, 2), Threshold |-> FNum(1, 10)]
          [] Name = "optimizable" ->
                 [Score |-> FNum(50, 1), Weight |-> FNum(4, 5), Threshold |-> FNum(60, 1)]
          [] Name = "peak-hours" ->
                 [Score |-> FNum(30, 1), Weight |-> FNum(7, 10), Threshold |-> FNum(4, 5)]]

\* time.Unix(ts, 0).Hour(), for a server whose local time is UTC
HourOf(ts) == (ts \div 3600) % 24

\* peakCount/totalCount >= 0.8 over the samples of the hours 9 to 17
isPeakHoursActive(samples) ==
    LET inPeak == {i \in 1..Len(samples) : HourOf(samples[i].Timestamp) \in 9..17}
        peakCount == Cardinality({i \in inPeak :
                                     FLess(FNum(0, 1), samples[i].PowerUsage)})
        totalCount == Cardinality(inPeak)
    IN  IF totalCount = 0 THEN FALSE
        ELSE ~FLess(FNum(peakCount, totalCount), FNum(4, 5))

\* a switch whose energy-intensive case needs the average power over the threshold
tagActivates_OverThreshold(tagName, tag, samples, avgPower, avgCarbon) ==
    CASE tagName = "eco-efficient" -> ~FLess(CalculateEcoScore(samples), tag.Threshold)
      [] tagName = "energy-intensive" -> FLess(tag.Threshold, avgPower)
      [] tagName = "carbon-neutral" -> ~FLess(tag.Threshold, avgCarbon)
      [] tagName = "optimizable" -> FLess(CalculateEcoScore(samples), tag.Threshold)
      [] tagName = "peak-hours" -> isPeakHoursActive(samples)

\* the cases of analyzeContainer's switch: whether the tag is assigned
tagActivates(tagName, tag, samples, avgPower, avgCarbon) ==
    CASE tagName = "eco-efficient" -> ~FLess(CalculateEcoScore(samples), tag.Threshold)
      [] tagName = "energy-intensive" -> ~FLess(avgPower, tag.Threshold)
      [] tagName = "carbon-neutral" -> ~FLess(tag.Threshold, avgCarbon)
      [] tagName = "optimizable" -> FLess(CalculateEcoScore(samples), tag.Threshold)
      [] tagName = "peak-hours" -> isPeakHoursActive(samples)

\* the loop over tm.tags, in the order `names` of the map iteration:
\* acc is [tags, totalScore, totalWeight]
RECURSIVE tagLoop(_, _, _, _, _)
tagLoop(names, samples, avgPower, avgCarbon, acc) ==
    IF names = <<>> THEN acc
    ELSE LET tagName == Head(names)
             tag == EcoTags[tagName]
         IN  IF tagActivates(tagName, tag, samples, avgPower, avgCarbon)
             THEN tagLoop(Tail(names), samples, avgPower, avgCarbon,
                          [tags |-> acc.tags \cup {tagName},
                           totalScore |-> FAdd(acc.totalScore, FMul(tag.Score, tag.Weight)),
                           totalWeight |-> FAdd(acc.totalWeight, tag.Weight)])
             ELSE tagLoop(Tail(names), samples, avgPower, avgCarbon, acc)

\* totalScore / totalWeight: 0/0 is NaN
FDiv(x, y) ==
    IF x.kind = "NaN" \/ y.kind = "NaN" \/ y.n = 0 THEN FNaN
    ELSE IF y.n > 0 THEN FMul(x, FNum(y.d, y.n))
    ELSE FMul(x, FNum(-y.d, -y.n))

\* analyzeContainer on what GetMetrics answers: <<>> (nil) or <<the profile>>.
\* The map iteration is taken in one order: the tags are tested one by one
\* and the fractions are exact, so every order gives the same profile.
analyzeContainer(answer, config) ==
    IF ~answer.found \/ Len(answer.data) < config.MinDataPoints THEN <<>>
    ELSE LET samples == answer.data
             avgPower == FOver(FSum(PowerValuesOf(samples)), Len(samples))
             avgCarbon == FOver(FSum([i \in 1..Len(samples) |->
                                         FNum(samples[i].CarbonFootprint, 1)]),
                                Len(samples))
             names == <<"carbon-neutral", "eco-efficient", "energy-intensive",
                        "optimizable", "peak-hours">>
             acc == tagLoop(names, samples, avgPower, avgCarbon,
                            [tags |-> {}, totalScore |-> FNum(0, 1),
                             totalWeight |-> FNum(0, 1)])
         IN  <<[Tags |-> acc.tags,
                EcoScore |-> IF acc.totalWeight = FNum(0, 1) THEN FNum(50, 1)
                             ELSE FDiv(acc.totalScore, acc.totalWeight),
                PowerUsage |-> avgPower,
                CarbonFootprint |-> avgCarbon]>>

\* the samples of a container's server, as <<timestamp, power, cpu, carbon>>:
\* at 00:00 and at 10:00, power around the 500 W of energy-intensive
TagSampleKinds == {<<0, 0, 70, 0>>, <<0, 0, 70, 1>>, <<0, 500, 70, 0>>,
                   <<0, 400, 20, 1>>, <<36000, 600, 20, 1>>, <<36000, 0, 70, 1>>}
TagSampleSeries == UNION {[1..n -> TagSampleKinds] : n \in 0..MaxSeries}
TagSamples(series) ==
    [i \in 1..Len(series) |->
        Sample(series[i][1] + i, series[i][2], series[i][3], series[i][4])]

TagsInit ==
    /\ tm_config \in [MinDataPoints : {1, 2}]
    /\ profiles = NoProfiles
    /\ an_data \in {NotFound} \cup
                   {[found |-> TRUE, data |-> TagSamples(series)] :
                        series \in TagSampleSeries}
    /\ an_config = [MinDataPoints |-> 10, AnomalyThreshold |-> FNum(5, 2)]
    /\ an_out = NoCall
    /\ PlannerIdle
    /\ ecoScore = NoScores
    /\ FleetOfMain
    /\ StoreIdle
    /\ SliceIdle
    /\ ScalerIdle

\* updateProfiles for the container of the service "svc": analyzeContainer,
\* and the profile stored under tm.mu if there is one
UpdateProfiles ==
    /\ LET profile == analyzeContainer(an_data, tm_config)
       IN  profiles' = IF profile # <<>>
                       THEN [name \in DOMAIN profiles \cup {"svc"} |-> profile[1]]
                       ELSE profiles
    /\ UNCHANGED <<an_config, an_data, an_out, tm_config>>
    /\ UNCHANGED <<pvars, svars, fvars, hvars, avars>>

SpecTags == TagsInit /\ [][UpdateProfiles]_vars

(***************************************************************************)
(* Claims about the Migration Planner                                      *)
(***************************************************************************)
RetryContainers == {p.ContainerID : p \in retry}
InFlight == {c \in Containers : w_pc[c] = "call"}

\* C1: once the relocation of container c has returned success in an
\* execution pass, the registry comes to hold no plan for c.
C1_SuccessRetiresPlan ==
    \A c \in Containers :
        (migrateErr[c] = "nil") ~> (~HasPlan(activePlans, c))

\* The part of C2 about the registry: a plan whose relocation failed, in the
\* running pass or in the last completed one, is in the registry as it was
\* snapshotted, field for field.
FailedPlanKept ==
    /\ retry \subseteq activePlans
    /\ \A i \in 1..Len(plans) :
          migrateErr[plans[i].ContainerID] = "err" => plans[i] \in activePlans

\* C2: a plan whose relocation failed stays in the registry unchanged, and
\* the next execution pass attempts its relocation again.
C2_FailedPlanKeptAndRetried ==
    /\ []FailedPlanKept
    /\ \A c \in Containers :
          (p_pc = "loop" /\ c \in RetryContainers) ~> (w_pc[c] # "none")

\* C3: the registry holds at most one plan per container, and a planning
\* pass leaves every plan it finds in place, adding plans only for
\* containers that had none.
AtMostOnePlanPerContainer ==
    \A p, q \in activePlans : p.ContainerID = q.ContainerID => p = q

\* a step taken from the planning position of Start's loop
PlanningOnlyAdds ==
    p_pc = "tick" =>
        /\ activePlans \subseteq activePlans'
        /\ \A p \in activePlans' \ activePlans : ~HasPlan(activePlans, p.ContainerID)

C3_OnePlanPerContainer ==
    /\ AtMostOnePlanPerContainer
    /\ [][AtMostOnePlanPerContainer' /\ PlanningOnlyAdds]_vars

\* a planning pass has just run over a registry that held a plan from an
\* earlier pass, and has added a plan for another container beside it
C3_Witness ==
    /\ p_pc = "exec"
    /\ retry # {}
    /\ activePlans \ retry # {}

\* C4: the relocations in flight never exceed ConcurrentMigrations.
C4_ConcurrencyCap == Cardinality(InFlight) <= ConcurrentMigrations

\* the cap is reached while a plan of the pass still waits for a slot
C4_Witness ==
    /\ p_pc = "loop"
    /\ idx <= Len(plans)
    /\ Cardinality(InFlight) = ConcurrentMigrations

(***************************************************************************)
(* Claims about the Metric Store                                           *)
(***************************************************************************)
\* the samples of the batches of a sequence of batches that are for server sid
RECURSIVE SamplesFor(_, _)
SamplesFor(batches, sid) ==
    IF batches = <<>> THEN <<>>
    ELSE (IF Head(batches).ServerID = sid THEN Head(batches).Metrics ELSE <<>>)
         \o SamplesFor(Tail(batches), sid)

Stored(sid) == IF sid \in DOMAIN metrics THEN metrics[sid].Data ELSE <<>>

\* every sample accepted for sid and not evicted, oldest position first:
\* stored, then in the consumer's hands, then queued
Pipeline(sid) ==
    Stored(sid) \o SamplesFor(<<consumer.batch>>, sid) \o SamplesFor(buffer, sid)

InArrivalOrder(samples) ==
    \A i, j \in 1..Len(samples) : i < j => samples[i].seq < samples[j].seq

\* C5: CollectMetrics always returns; on a full buffer it returns the
\* "buffer full" error and leaves the buffer as it was, otherwise it
\* enqueues exactly one batch, at the tail, and returns no error.
CollectMetricsOutcome ==
    \A sid \in StoreServers :
        CollectMetrics(sid) =>
            IF Len(buffer) >= BufferSize
            THEN /\ lastErr' = "metric buffer is full"
                 /\ buffer' = buffer
            ELSE /\ lastErr' = "nil"
                 /\ Len(buffer') = Len(buffer) + 1
                 /\ SubSeq(buffer', 1, Len(buffer)) = buffer
                 /\ buffer'[Len(buffer')].ServerID = sid
                 /\ Len(buffer'[Len(buffer')].Metrics) = 1

C5_IngestNeverBlocks ==
    /\ [](Len(buffer) >= BufferSize =>
            \A sid \in StoreServers : ENABLED CollectMetrics(sid))
    /\ [][CollectMetricsOutcome]_vars

\* an ingest has just been refused on a full buffer
C5_Witness ==
    /\ lastErr = "metric buffer is full"
    /\ Len(buffer) = BufferSize

\* C6: right after a sweep at time T (cutoff = T - RetentionPeriod) every
\* sample retained, for every server, has Timestamp >= T - RetentionPeriod.
C6_SweepLeavesOnlyWindow ==
    cleanup.pc = "swept" =>
        \A sid \in DOMAIN metrics :
            \A i \in 1..Len(metrics[sid].Data) :
                metrics[sid].Data[i].Timestamp >= cleanup.cutoff

\* a sweep has evicted a sample of a server and kept another one
C6_Witness ==
    /\ cleanup.pc = "swept"
    /\ \E sid \in DOMAIN metrics :
          /\ metrics[sid].Data # <<>>
          /\ Len(metrics[sid].Data) < Len(cleanup.before[sid].Data)

\* C7 as stated: a sweep retains exactly the samples whose Timestamp is not
\* older than the cutoff, the one at the cutoff included, in their order,
\* and removes no entry of the map.
C7_SweepKeepsFromCutoff ==
    cleanup.pc = "swept" =>
        /\ DOMAIN metrics = DOMAIN cleanup.before
        /\ \A sid \in DOMAIN cleanup.before :
              metrics[sid].Data =
                  SelectSeq(cleanup.before[sid].Data,
                            LAMBDA m : m.Timestamp >= cleanup.cutoff)

\* C7 amended: a sweep retains exactly the samples whose Timestamp is
\* strictly after the cutoff (the one at the cutoff is dropped), in their
\* order and once each, and removes no entry of the map.
C7_SweepKeepsAfterCutoff ==
    cleanup.pc = "swept" =>
        /\ DOMAIN metrics = DOMAIN cleanup.before
        /\ \A sid \in DOMAIN cleanup.before :
              LET old == cleanup.before[sid].Data
                  new == metrics[sid].Data
              IN  /\ \A i \in 1..Len(old) :
                        old[i].Timestamp > cleanup.cutoff
                            <=> \E j \in 1..Len(new) : new[j] = old[i]
                  /\ \A j \in 1..Len(new) : \E i \in 1..Len(old) : old[i] = new[j]
                  /\ Len(new) = Cardinality({i \in 1..Len(old) :
                                                old[i].Timestamp > cleanup.cutoff})
                  /\ \A j1, j2 \in 1..Len(new) :
                        j1 < j2 =>
                            \E i1, i2 \in 1..Len(old) :
                                i1 < i2 /\ old[i1] = new[j1] /\ old[i2] = new[j2]
                  /\ metrics[sid].LastUpdate = cleanup.before[sid].LastUpdate

\* a sweep has dropped a sample stamped exactly at the cutoff and has left
\* a server's entry in the map with no samples
C7_Witness ==
    /\ cleanup.pc = "swept"
    /\ \E sid \in DOMAIN cleanup.before :
          /\ \E i \in 1..Len(cleanup.before[sid].Data) :
                cleanup.before[sid].Data[i].Timestamp = cleanup.cutoff
          /\ sid \in DOMAIN metrics
          /\ metrics[sid].Data = <<>>

\* C8: for each server the stored samples are in the order in which
\* CollectMetrics accepted them, and so are the ones still on their way.
C8_StoredInArrivalOrder ==
    \A sid \in StoreServers : InArrivalOrder(Pipeline(sid))

\* a server's stored sequence holds two samples, incorporated one by one
C8_Witness ==
    \E sid \in DOMAIN metrics : Len(metrics[sid].Data) >= 2

\* C9: GetMetrics returns the "not found" error exactly for a server no
\* batch of which was ever incorporated, and otherwise the stored sequence,
\* which may be empty, without error.
GetMetricsOutcome ==
    \A r \in Readers :
        GetMetricsReturn(r) =>
            /\ got'.server = reader[r].server
            /\ got'.err # "nil" <=> reader[r].server \notin incorporated
            /\ got'.err = "nil" => got'.data = metrics[reader[r].server].Data

C9_NotFoundIffNeverIncorporated == [][GetMetricsOutcome]_vars

\* a query found a server whose samples were all evicted, and answered the
\* empty sequence, while a sample accepted for a server that has no entry
\* yet is still queued
C9_Witness ==
    /\ got.err = "nil"
    /\ got.data = <<>>
    /\ got.server \in incorporated
    /\ \E i \in 1..Len(buffer) : buffer[i].ServerID \notin DOMAIN metrics

\* C10: no reader is inside GetMetrics' critical section while a writer
\* (processBatch, the sweep) is inside its own, and the two writers are
\* never inside together.
ReaderInside(r) == reader[r].pc = "reading"
ConsumerInside == consumer.pc = "write"
CleanupInside == cleanup.pc = "swept"

C10_ReadersWritersExcluded ==
    /\ \A r \in Readers : ReaderInside(r) => ~ConsumerInside /\ ~CleanupInside
    /\ ~(ConsumerInside /\ CleanupInside)

\* two readers are inside at once
C10_Witness ==
    \E r1, r2 \in Readers : r1 # r2 /\ ReaderInside(r1) /\ ReaderInside(r2)

(***************************************************************************)
(* Claims about the slice GetMetrics returns                               *)
(***************************************************************************)
\* C11: the sequence GetMetrics returned keeps its length and its elements
\* whatever is incorporated or evicted after the call returned.
C11_ReturnedSliceStable ==
    /\ View(h_heap, h_ret) = h_seen
    /\ Len(h_seen) = h_ret.len

\* a returned sequence of two samples shares its array with the stored one,
\* which has since grown in place
C11_Witness ==
    /\ h_ret.len = 2
    /\ h_data.arr = h_ret.arr
    /\ h_data.len > h_ret.len

\* the time since the last scale-up is shorter than ScaleUpCooldown
WithinScaleUpCooldown ==
    /\ lastScaleUp # ZeroTime
    /\ a_now - lastScaleUp < ScaleUpCooldown

OverScaleUpThreshold ==
    a_metric.cpu > CPUThresholdHigh \/ a_metric.power > PowerThresholdHigh

\* C12: a server whose last sample has cpu > CPUThresholdHigh, evaluated while
\* less than ScaleUpCooldown has passed since the last scale-up, starts no
\* pass, relocates nothing and leaves both cooldown times alone; a scale-up
\* starts only over a threshold and with the cooldown elapsed.
C12_ScaleUpNeedsCooldownElapsed ==
    [][a_pc = "check" =>
          /\ (a_metric.cpu > CPUThresholdHigh /\ WithinScaleUpCooldown) =>
                /\ a_pc' \notin {"up", "down"}
                /\ a_attempts' = <<>>
                /\ lastScaleUp' = lastScaleUp
                /\ lastScaleDown' = lastScaleDown
          /\ a_pc' = "up" => (OverScaleUpThreshold /\ ~WithinScaleUpCooldown)]_vars

C12_Witness ==
    /\ a_decision = "skip"
    /\ a_metric.none = FALSE
    /\ a_metric.cpu = 85
    /\ WithinScaleUpCooldown

\* within one evaluate pass shorter than ScaleUpCooldown, at most one scaleUp returned
OneScaleUpPerShortPass ==
    a_now - a_passStart < ScaleUpCooldown => a_ups <= 1

\* C13: a scale-up pass completes only when at least ScaleUpCooldown has
\* passed since the last one completed, whichever server that was; so an
\* evaluate pass shorter than ScaleUpCooldown scales up at most one server.
C13_ScaleUpCooldownIsGlobal ==
    /\ OneScaleUpPerShortPass
    /\ [][/\ OneScaleUpPerShortPass'
          /\ (a_pc = "up" /\ a_pc' = "eval") =>
                (lastScaleUp = ZeroTime \/ a_now - lastScaleUp >= ScaleUpCooldown)]_vars

C13_Witness ==
    /\ a_ups = 1
    /\ a_i = 3
    /\ a_decision = "skip"
    /\ a_metric.none = FALSE
    /\ a_metric.power = 1200
    /\ WithinScaleUpCooldown
    /\ lastScaleUp = a_passStart

\* a scale pass has just chosen its target: the scores it read are at hand
TargetJustChosen ==
    /\ a_pc \in {"up", "down"}
    /\ a_attempts = <<>>
    /\ ecoScore # NoScores

\* C14: the relocation target of a scale pass for server s is a server other
\* than s, with the highest eco-score among the servers other than s.
C14_TargetIsBestOtherServer ==
    TargetJustChosen =>
        /\ a_target \in Servers \ {a_src}
        /\ \A s \in Servers \ {a_src} : ecoScore[a_target] >= ecoScore[s]

\* C15: a scale-down pass for a server whose own eco-score is above 80
\* relocates none of its containers and leaves lastScaleDown alone.
C15_EfficientServerLeftInPlace ==
    [][(TargetJustChosen /\ a_pc = "down" /\ ecoScore[a_src] > 80) =>
          /\ a_attempts' = a_attempts
          /\ lastScaleDown' = lastScaleDown]_vars

\* the relocations attempted so far are those of the first containers
\* getServerContainers listed, one each, in that order
AttemptsFollowContainers ==
    /\ Len(a_attempts) <= Len(a_containers)
    /\ \A i \in 1..Len(a_attempts) : a_attempts[i].c = a_containers[i]

ScaleUpAttemptsInStep ==
    a_pc = "up" => (AttemptsFollowContainers /\ a_k = Len(a_attempts) + 1)

\* C16: a scale-up pass attempts every container of the source once, in
\* order, whatever the earlier attempts returned, and it ends only by
\* returning to evaluate's loop with lastScaleUp set to the current time.
C16_ScaleUpIsBestEffort ==
    /\ ScaleUpAttemptsInStep
    /\ [][/\ ScaleUpAttemptsInStep'
          /\ (a_pc = "up" /\ a_pc' # "up") =>
                /\ a_pc' = "eval"
                /\ lastScaleUp' = a_now'
                /\ Len(a_attempts') = Len(a_containers')
                /\ AttemptsFollowContainers']_vars

C16_Witness ==
    /\ a_decision = "up"
    /\ a_pc = "eval"
    /\ lastScaleUp = a_now
    /\ Len(a_containers) = 2
    /\ Len(a_attempts) = 2
    /\ \A i \in 1..2 : a_attempts[i].res = "err"

\* C17: in a scale-down pass nothing is attempted after an attempt that failed.
C17_ScaleDownStopsAtFirstFailure ==
    a_decision = "down" =>
        /\ AttemptsFollowContainers
        /\ \A i \in 1..Len(a_attempts) :
              a_attempts[i].res = "err" => i = Len(a_attempts)
        /\ (a_attempts # <<>> /\ a_attempts[Len(a_attempts)].res = "err") => a_pc = "idle"

C17_Witness ==
    /\ a_decision = "down"
    /\ a_pc = "idle"
    /\ Len(a_containers) = 2
    /\ Len(a_attempts) = 1
    /\ a_attempts[1].res = "err"

\* server tgt passes both tests of findBestMigrationPlan for container c of src
Qualifies(c, src, tgt) ==
    LET ps == estimatePowerSaving(c, src, tgt)
    IN  /\ tgt # src
        /\ ps.kind = "num"
        /\ ps.n >= MinPowerSaving * ps.d
        /\ estimateDowntime(src, tgt) <= MaxDowntime

\* planMigrations has just returned nil
PlanningPass == p_pc = "tick" /\ p_pc' = "exec"

\* C20: a planning pass makes plans only for containers reported on a server
\* whose eco-score is at most 70 and only for containers with no plan in the
\* registry; a server scoring exactly 70 is planned for like any lower one.
C20_PlansOnlyForUnderperformers ==
    [][PlanningPass =>
          /\ activePlans \subseteq activePlans'
          /\ \A p \in activePlans' \ activePlans :
                /\ ~HasPlan(activePlans, p.ContainerID)
                /\ p_loc'[p.ContainerID] = p.SourceServerID
                /\ ecoScore[p.SourceServerID] <= 70
          /\ \A c \in Containers :
                (/\ p_loc'[c] \in Servers
                 /\ ecoScore[p_loc'[c]] = 70
                 /\ ~HasPlan(activePlans, c)
                 /\ \E t \in Servers : Qualifies(c, p_loc'[c], t))
                => HasPlan(activePlans', c)]_vars

C20_Witness ==
    /\ p_pc = "exec"
    /\ \E q \in retry : p_loc[q.ContainerID] \in Servers
    /\ \E p \in activePlans \ retry :
          /\ ecoScore[p.SourceServerID] = 70
          /\ p_loc[p.ContainerID] = p.SourceServerID

\* the fleet and configuration of the three-server example
ExampleFleet ==
    /\ ecoScore = ExampleScores
    /\ MinPowerSaving = ExampleConfig.MinPowerSaving
    /\ MaxDowntime = ExampleConfig.MaxDowntime
    /\ Region = OneRegion
    /\ PowerUsage = ExamplePowerUsage

\* C18: with A, B, C scoring 90, 40, 95 in one region, 50 W and 90 s, a
\* planning pass that finds a 200 W container on B, with no plan yet, records
\* a plan for it from B to C with a priority from 1 to 10.
C18_ExampleRelocatesFromBToC ==
    (ExampleFleet /\ p_pc = "exec" /\ p_loc[1] = "B") =>
        \E p \in activePlans :
            /\ p.ContainerID = 1
            /\ p.SourceServerID = "B"
            /\ p.TargetServerID = "C"
            /\ p.Priority \in 1..10

\* C19: every plan a planning pass records carries the estimates of its
\* source and target, which is another server passing both thresholds, and
\* no server passing both saves more; a container without a plan, reported on
\* a server scoring at most 70, gets a plan when some server passes both.
C19_RecordedPlanIsBestQualifying ==
    [][PlanningPass =>
          /\ \A p \in activePlans' \ activePlans :
                LET c == p.ContainerID
                    src == p.SourceServerID
                IN  /\ p_loc'[c] = src
                    /\ p.TargetServerID \in Servers \ {src}
                    /\ p.PowerSaving = estimatePowerSaving(c, src, p.TargetServerID)
                    /\ p.DowntimeEstimate = estimateDowntime(src, p.TargetServerID)
                    /\ p.PowerSaving.kind = "num"
                    /\ p.PowerSaving.n >= MinPowerSaving * p.PowerSaving.d
                    /\ p.DowntimeEstimate <= MaxDowntime
                    /\ \A t \in Servers :
                          Qualifies(c, src, t) =>
                              ~FLess(p.PowerSaving, estimatePowerSaving(c, src, t))
          /\ \A c \in Containers :
                (/\ p_loc'[c] \in Servers
                 /\ ecoScore[p_loc'[c]] <= 70
                 /\ ~HasPlan(activePlans, c)
                 /\ \E t \in Servers : Qualifies(c, p_loc'[c], t))
                => HasPlan(activePlans', c)]_vars

\* a plan was recorded although another server would save more: that one
\* was kept out by its downtime alone
C19_Witness ==
    /\ p_pc = "exec"
    /\ \E p \in activePlans :
          \E t \in Servers \ {p.SourceServerID} :
              /\ FLess(p.PowerSaving,
                       estimatePowerSaving(p.ContainerID, p.SourceServerID, t))
              /\ estimateDowntime(p.SourceServerID, t) > MaxDowntime

\* math.Round of the float64 n/d (d > 0): to the nearest integer, halves away from zero
FRound(n, d) ==
    IF n >= 0 THEN (2 * n + d) \div (2 * d) ELSE -((2 * (-n) + d) \div (2 * d))

\* round((powerSaving / MinPowerSaving) * 10), less 2 when the downtime is
\* over half of MaxDowntime, clamped to 1..10
RoundedPriority(powerSaving, downtime) ==
    LET raw == FRound(powerSaving.n * 10, powerSaving.d * MinPowerSaving)
        pen == IF 2 * downtime > MaxDowntime THEN raw - 2 ELSE raw
    IN  IF pen < 1 THEN 1 ELSE IF pen > 10 THEN 10 ELSE pen

\* C21: the priority of every plan in the registry is the rounded ratio of
\* its power saving to MinPowerSaving times 10, less the downtime penalty,
\* clamped to 1..10.
C21_PriorityIsRoundedRatio ==
    \A p \in activePlans :
        /\ p.Priority \in 1..10
        /\ p.Priority = RoundedPriority(p.PowerSaving, p.DowntimeEstimate)

\* the goroutine of plan p has called MigrateContainer in this pass
RelocationStarted(p) ==
    w_pc[p.ContainerID] \in {"call", "lock", "delete", "exit", "done"}

\* the plans of the snapshot executeMigrations works on
SnapshotPlans == {plans[i] : i \in 1..Len(plans)}

\* C22: in an execution pass no relocation has started while the relocation
\* of a plan of the pass with a strictly higher priority has not.
C22_StartsInPriorityOrder ==
    \A p, q \in SnapshotPlans :
        (RelocationStarted(q) /\ p.Priority > q.Priority) => RelocationStarted(p)

\* the slots are taken, and the goroutines launched, in the snapshot's order,
\* which is non-increasing in priority
LaunchedInPriorityOrder ==
    /\ \A i \in 1..Len(plans) : w_pc[plans[i].ContainerID] # "none" <=> i < idx
    /\ \A i, j \in 1..Len(plans) : i < j => plans[i].Priority >= plans[j].Priority

\* C23: no MigrateContainer call is made by the autoscaler while a.mu is
\* held, and none by the planner's goroutines while p.mu is held.
C23_NoLockAcrossCollaboratorCalls ==
    [][/\ a_attempts' # a_attempts => a_mu = "free"
       /\ \A c \in Containers :
             (w_pc[c] = "start" /\ w_pc'[c] = "call") => p_mu = "free"]_vars

\* C24: once the context is cancelled the planner's periodic task comes to a
\* stop, and a plan of the pass is at every moment either in the registry as
\* it was snapshotted or not in the registry at all.
PlanEntriesWhole ==
    \A i \in 1..Len(plans) :
        plans[i] \in activePlans \/ ~HasPlan(activePlans, plans[i].ContainerID)

C24_CancellationStopsPlanner ==
    /\ []PlanEntriesWhole
    /\ (ctx = "done") ~> (p_pc = "stopped")

\* C25: an evaluate pass ends only when every server GetInstances listed has
\* been evaluated, whatever failed for the servers before, and after it the
\* autoscaler is back at its ticker.
C25_ErrorsNeverCutThePassShort ==
    [][(a_pc # "idle" /\ a_pc' = "idle") => a_i > Len(a_servers)]_vars

(***************************************************************************)
(* Claims about the Scoring Engine                                         *)
(***************************************************************************)

\* C26: AnalyzeServerMetrics on a server with fewer than MinDataPoints
\* retained samples returns the insufficient-data error and no analysis,
\* having computed no statistic; on a server with no entry it returns the
\* store's not-found error.
C26_TooFewSamplesRefused ==
    an_out.op = "analyze" =>
        /\ ~an_data.found =>
               /\ an_out.err = NotFoundError
               /\ an_out.analysis = NoAnalysis
        /\ (an_data.found /\ Len(an_data.data) < an_config.MinDataPoints) =>
               /\ an_out.err = InsufficientData
               /\ an_out.analysis = NoAnalysis
               /\ an_out.computed = {}

C26_Witness ==
    /\ an_out.op = "analyze"
    /\ an_data.found
    /\ Len(an_data.data) = an_config.MinDataPoints - 1
    /\ Len(an_data.data) >= 2
    /\ an_out.err = InsufficientData
    /\ an_out.analysis = NoAnalysis

IsNumber(x) == x.kind = "num"
AtLeastZero(x) == IsNumber(x) /\ ~FLess(x, FNum(0, 1))
AtMostHundred(x) == IsNumber(x) /\ ~FLess(FNum(100, 1), x)

\* C27: for every non-empty sample set whose power and carbon values are
\* non-negative, whatever the CPU values, the composite eco-score lies in
\* [0, 100] and each of the three component scores is non-negative.
C27_ScoreWithinBounds ==
    (/\ an_out.op = "analyze"
     /\ an_out.err = "nil"
     /\ Len(an_data.data) > 0
     /\ \A i \in 1..Len(an_data.data) :
            /\ AtLeastZero(an_data.data[i].PowerUsage)
            /\ an_data.data[i].CarbonFootprint >= 0) =>
        /\ AtLeastZero(an_out.analysis[1].EfficiencyScore)
        /\ AtMostHundred(an_out.analysis[1].EfficiencyScore)
        /\ AtLeastZero(calculatePowerScore(an_data.data))
        /\ AtLeastZero(calculateUtilizationScore(an_data.data))
        /\ AtLeastZero(calculateCarbonScore(an_data.data))

\* C28: the eco-score of an empty sample set is 0, computed without a fault,
\* and so the planner's eco-score of a server with no stored metrics is 0.
C28_NoSamplesScoreZero ==
    /\ calculateEfficiencyScore(<<>>) = FNum(0, 1)
    /\ (an_out.op = "score" /\ (~an_data.found \/ Len(an_data.data) = 0)) =>
           an_out.score = FNum(0, 1)

C28_Witness ==
    /\ an_out.op = "score"
    /\ an_data.found
    /\ Len(an_data.data) = 0
    /\ an_out.score = FNum(0, 1)

\* the series mirrored around its mean: each value x becomes 2*mean - x
Mirrored(samples) ==
    LET mean == calculateMean(samples)
    IN  [i \in 1..Len(samples) |->
            [samples[i] EXCEPT !.PowerUsage = FSub(FMul(FNum(2, 1), mean), @)]]

NonDecreasing(samples) ==
    \A i \in 1..(Len(samples) - 1) :
        ~FLess(samples[i + 1].PowerUsage, samples[i].PowerUsage)
StrictlyIncreasing(samples) ==
    \A i \in 1..(Len(samples) - 1) :
        FLess(samples[i].PowerUsage, samples[i + 1].PowerUsage)
ConstantSeries(samples) ==
    \A i \in 1..Len(samples) : samples[i].PowerUsage = samples[1].PowerUsage

\* C29 as stated: the mirror of every monotonically increasing series is
\* classified "decreasing", and every constant series is classified "stable".
C29_MirrorIsDecreasing ==
    an_data.found =>
        /\ (Len(an_data.data) >= 2 /\ StrictlyIncreasing(an_data.data)) =>
               analyzeTrend(Mirrored(an_data.data)) = "decreasing"
        /\ ConstantSeries(an_data.data) => analyzeTrend(an_data.data) = "stable"

\* C29: the mirror of a non-decreasing series of non-negative power values
\* is never classified "increasing", and it is classified "decreasing" only
\* if the series itself is classified "increasing"; every constant series of
\* non-negative values is classified "stable".
C29_MirrorNeverIncreasing ==
    an_data.found =>
        /\ NonDecreasing(an_data.data) =>
               /\ analyzeTrend(Mirrored(an_data.data)) # "increasing"
               /\ analyzeTrend(Mirrored(an_data.data)) = "decreasing" =>
                      analyzeTrend(an_data.data) = "increasing"
        /\ ConstantSeries(an_data.data) => analyzeTrend(an_data.data) = "stable"

C29_Witness ==
    /\ an_out.op = "analyze"
    /\ an_out.err = "nil"
    /\ StrictlyIncreasing(an_data.data)
    /\ an_out.analysis[1].Trend = "increasing"
    /\ analyzeTrend(Mirrored(an_data.data)) = "decreasing"

\* C30: when the standard deviation of the power values is zero the analysis
\* succeeds and reports no anomalies; otherwise a sample is reported exactly
\* when |value - mean| / stddev exceeds the anomaly threshold, as a spike if
\* its value is above the mean and as a drop otherwise.
C30_AnomaliesAreTheOutliers ==
    (an_out.op = "analyze" /\ an_out.err = "nil") =>
        LET analysis == an_out.analysis[1]
            samples == an_data.data
            variance == analysis.StdDev.of
            t == an_config.AnomalyThreshold
            dist(i) == FAbs(FSub(samples[i].PowerUsage, analysis.Mean))
        IN  /\ IsNumber(variance)
            /\ variance.n = 0 => analysis.Anomalies = <<>>
            /\ variance.n # 0 =>
                   /\ \A i \in 1..Len(samples) :
                          (\E k \in 1..Len(analysis.Anomalies) :
                               analysis.Anomalies[k].Timestamp = samples[i].Timestamp)
                          <=> FLess(FMul(FMul(t, t), variance), FMul(dist(i), dist(i)))
                   /\ \A k \in 1..Len(analysis.Anomalies) :
                          LET i == analysis.Anomalies[k].Timestamp
                          IN  /\ analysis.Anomalies[k].Value = samples[i].PowerUsage
                              /\ analysis.Anomalies[k].Type =
                                     IF FLess(analysis.Mean, samples[i].PowerUsage)
                                     THEN "spike" ELSE "drop"

C30_Witness ==
    /\ an_out.op = "analyze"
    /\ an_out.err = "nil"
    /\ Len(an_data.data) >= 2
    /\ an_out.analysis[1].StdDev.of.n = 0
    /\ an_out.analysis[1].Anomalies = <<>>

(***************************************************************************)
(* Further claims about the Migration Planner                              *)
(***************************************************************************)

\* C31: the power-saving estimate for a source server whose eco-score is 0
\* is a defined value, and a planning pass over such a source records no
\* plan with an undefined or infinite power saving or priority.
C31_ZeroScoreSourceEstimateDefined ==
    /\ \A c \in Containers : \A tgt \in Servers :
           (/\ p_pc = "exec"
            /\ p_loc[c] # NoServer
            /\ getServerEcoScore(p_loc[c]) = 0
            /\ tgt # p_loc[c]) =>
               IsNumber(estimatePowerSaving(c, p_loc[c], tgt))
    /\ \A p \in activePlans :
           /\ IsNumber(p.PowerSaving)
           /\ p.Priority \in 1..10

\* C34: every recorded plan moves its container toward efficiency: the
\* target server's eco-score is strictly greater than the source server's.
C34_PlansMoveTowardEfficiency ==
    \A p \in activePlans :
        getServerEcoScore(p.TargetServerID) > getServerEcoScore(p.SourceServerID)

\* C33: every execution pass terminates: whatever the active plans, the
\* concurrency cap and the outcomes of the relocations, executeMigrations
\* returns and the planner's loop is back at its ticker.
C33_ExecutionPassTerminates == (p_pc = "loop") ~> (p_pc = "tick")

C35_NoScaleDownOverScaleUpThreshold ==
    [][a_pc = "check" =>
          /\ OverScaleUpThreshold => a_pc' # "down"
          /\ a_pc' \in {"up", "down"} => a_i' = a_i]_vars

\* C36: the relocation target of the autoscaler is always a server of the
\* fleet list: when no server has stored metrics, or every eco-score is 0,
\* no relocation is issued rather than one to the zero server identifier.
C36_TargetIsInFleet ==
    [][Len(a_attempts') > Len(a_attempts) => a_target \in Servers]_vars

\* C37: the two cooldowns are independent: a scale-up pass never changes
\* lastScaleDown and a scale-down pass never changes lastScaleUp; a
\* scale-down pass that ends on a relocation failure or a collaborator
\* error leaves lastScaleDown as it was, as does every step that is not the
\* completion of a scale-down pass.
C37_CooldownsIndependent ==
    [][/\ a_pc = "up" => lastScaleDown' = lastScaleDown
       /\ a_pc = "down" => lastScaleUp' = lastScaleUp
       /\ (a_pc \in {"check", "down"} /\ a_pc' = "idle") =>
              /\ lastScaleDown' = lastScaleDown
              /\ lastScaleUp' = lastScaleUp
       /\ lastScaleDown' # lastScaleDown => (a_pc = "down" /\ a_pc' = "eval")
       /\ lastScaleUp' # lastScaleUp => (a_pc = "up" /\ a_pc' = "eval")]_vars

C37_Witness ==
    /\ a_pc = "idle"
    /\ a_decision = "down"
    /\ a_attempts # <<>>
    /\ a_attempts[Len(a_attempts)].res = "err"
    /\ lastScaleDown = ZeroTime
    /\ lastScaleUp # ZeroTime

(***************************************************************************)
(* Further claims about the Metric Store                                   *)
(***************************************************************************)
SeqsOf(samples) == {samples[i].seq : i \in 1..Len(samples)}
\* accepted and not yet appended: queued in the buffer or in the consumer's hands
Queued(n) ==
    \E sid \in StoreServers :
        n \in SeqsOf(SamplesFor(<<consumer.batch>>, sid) \o SamplesFor(buffer, sid))
StoredNow(n) == \E sid \in StoreServers : n \in SeqsOf(Stored(sid))

\* every sample that enters a server's sequence is the one the consumer
\* holds, for that server, entering once; a refused ingest queues nothing
AppendsOnlyFromConsumer ==
    /\ \A sid \in StoreServers :
           LET new == SeqsOf(Stored(sid))' \ SeqsOf(Stored(sid))
           IN  new # {} =>
                  /\ consumer.pc = "write"
                  /\ consumer.batch.ServerID = sid
                  /\ new = SeqsOf(consumer.batch.Metrics)
                  /\ \A n \in 1..MaxSamples : n \in new => ~Queued(n)'
                  /\ Len(Stored(sid))' <= Len(Stored(sid)) + Len(consumer.batch.Metrics)
    /\ lastErr' = "metric buffer is full" =>
           \A n \in 1..MaxSamples : Queued(n)' => Queued(n)

NoSampleTwice ==
    /\ \A sid \in StoreServers :
           \A i, j \in 1..Len(Pipeline(sid)) :
               i # j => Pipeline(sid)[i].seq # Pipeline(sid)[j].seq
    /\ \A n \in 1..MaxSamples : ~(Queued(n) /\ StoredNow(n))
    /\ \A n \in 1..MaxSamples :
           Cardinality({sid \in StoreServers : n \in SeqsOf(Pipeline(sid))}) <= 1

\* C38: every sample for which ingest returned success is eventually
\* appended to its server's sequence, exactly once, whatever the other
\* producers and the sweeps do; a sample refused with "buffer full" is never
\* appended.
C38_AcceptedSamplesAppendedOnce ==
    /\ \A n \in 1..MaxSamples : Queued(n) ~> StoredNow(n)
    /\ [][AppendsOnlyFromConsumer /\ NoSampleTwice']_vars

C38_Witness ==
    /\ lastErr = "metric buffer is full"
    /\ \E n \in 1..MaxSamples : StoredNow(n)
    /\ \E sid \in StoreServers : Len(Stored(sid)) >= 2

(***************************************************************************)
(* A claim about the planner and the autoscaler together                   *)
(***************************************************************************)
\* the planner's relocation of container c away from server src is in flight
PlannerRelocating(c, src) ==
    /\ w_pc[c] = "call"
    /\ \E i \in 1..Len(plans) :
           plans[i].ContainerID = c /\ plans[i].SourceServerID = src

\* C39: at no time are two relocations of the same container in flight:
\* the autoscaler issues no relocation of a container away from a server
\* while the planner's relocation of that container away from that server
\* is in flight.
C39_OneRelocationPerContainer ==
    [][Len(a_attempts') > Len(a_attempts) =>
           ~PlannerRelocating(a_containers[a_k], a_src)]_vars

(***************************************************************************)
(* A claim about the Tag Manager                                           *)
(***************************************************************************)
RECURSIVE WeightedSum(_, _)
WeightedSum(names, withScore) ==
    IF names = {} THEN FNum(0, 1)
    ELSE LET name == CHOOSE x \in names : TRUE
         IN  FAdd(IF withScore THEN FMul(EcoTags[name].Score, EcoTags[name].Weight)
                  ELSE EcoTags[name].Weight,
                  WeightedSum(names \ {name}, withScore))

\* C32: a service profile's composite eco-score is sum(score*weight) /
\* sum(weight) over its activated tags, and 50 when no tag activates; the
\* energy-intensive tag activates exactly when the average power is at
\* least its threshold of 500, whatever the other tags do.
C32_ProfileScoreIsWeightedAverage ==
    \A name \in DOMAIN profiles :
        LET profile == profiles[name]
        IN  /\ profile.Tags \subseteq DOMAIN EcoTags
            /\ profile.Tags = {} => profile.EcoScore = FNum(50, 1)
            /\ profile.Tags # {} =>
                   FMul(profile.EcoScore, WeightedSum(profile.Tags, FALSE))
                       = WeightedSum(profile.Tags, TRUE)
            /\ "energy-intensive" \in profile.Tags
                   <=> ~FLess(profile.PowerUsage, FNum(500, 1))

C32_Witness ==
    /\ "svc" \in DOMAIN profiles
    /\ profiles["svc"].PowerUsage = FNum(500, 1)
    /\ {"energy-intensive", "optimizable", "peak-hours"} \subseteq profiles["svc"].Tags
    /\ Len(an_data.data) >= 2

====
